---- MODULE Spec2Model ----
(***************************************************************************)
(* Model of the ctsTraffic connection broker (ctsSocketBroker.cpp) and of  *)
(* the configuration values it reads (ctsConfig.cpp).                      *)
(*                                                                         *)
(* The broker owns a pool of connection records and three counters that    *)
(* are guarded by one critical section.  Every method body that runs under *)
(* that critical section is one atomic action here.  The constructor arms  *)
(* the timer (line 72) BEFORE it takes the lock (line 79), so the initial  *)
(* fill is an action of its own that timer ticks and record callbacks may  *)
(* precede.                                                                *)
(*                                                                         *)
(* Machine words are scaled down: ULONGLONG is ULONGLONG_BITS wide and     *)
(* unsigned long is ULONG_BITS wide; arithmetic wraps modulo 2^width as    *)
(* it does in the program.                                                 *)
(***************************************************************************)
EXTENDS Integers, Naturals, Sequences, FiniteSets, TLC

\* ------------------------------------------------------------------------
\* Bounds of the model
\* ------------------------------------------------------------------------
ULONGLONG_BITS == 5
ULONG_BITS == 4
MaxIterations == 2
MaxConnectionLimit == 2
MaxThrottleLimit == 2
MaxServerExitLimit == 3
MaxAcceptLimit == 2
MaxRecords == 3
MaxFailures == 1
MaxRangeValue == 2
MaxListenAddresses == 3
MaxCopies == 2
MaxSockets == 2

MAXULONGLONG == 2^ULONGLONG_BITS - 1
MAXUINT32 == 2^ULONG_BITS - 1

RecordIds == 1..MaxRecords
SocketIds == 1..MaxSockets

VARIABLES
    Settings,                       \* ctsConfig::Settings, fixed after Startup
    phase,                          \* "no_broker", "armed", "fill", "running", "ctor_threw", "failfast"
    total_connections_remaining,
    pending_limit,
    pending_sockets,
    active_sockets,
    done_event,                     \* manual-reset event, TRUE = signalled
    CtrlCHandle,                    \* manual-reset event set by Shutdown
    socket_pool,                    \* vector of record ids, in push_back order
    socket_state,                   \* per record: lifecycle state of ctsSocketState
    fReturn,                        \* value returned by the last wait()
    failures,                       \* history: creation attempts that threw
    break_on_error,                 \* ctsConfig.cpp line 127, set by -OnError
    failed_result_printed,          \* a result line of a failed connection was written
    args,                           \* the command line handed to Startup
    startup,                        \* "not_called", "returned_true", "invalid_argument", "exception"
    Protocol,                       \* Settings->Protocol
    ShouldVerifyBuffers,            \* Settings->ShouldVerifyBuffers
    PrePostRecvs,                   \* Settings->PrePostRecvs
    buffersize_low,                 \* ctsConfig.cpp lines 98-101
    buffersize_high,
    ratelimit_low,
    ratelimit_high,
    BufferSize,                     \* value returned by the last GetBufferSize()
    TcpBytesPerSecond,              \* value returned by the last GetTcpBytesPerSecond()
    ListenAddresses,                \* Settings->ListenAddresses.size()
    accept_pc,                      \* "none", "listen", "constructed", "ctor_threw", "destroyed"
    listening_sockets,              \* pimpl->listening_sockets
    thread_pool_worker,             \* pimpl->thread_pool_worker != nullptr
    copies,                         \* owners of pimpl
    sockets_created,                \* history: sockets WSASocket has returned
    tracked,                        \* history: sockets pushed to listening_sockets
    closesocket_calls,              \* history: every closesocket, in order
    cs_owner,                       \* who holds the broker's cs: "none", "constructor", "TimerCallback"
    uncounted,                      \* record started but not yet counted, 0 if none
    dtor,                           \* statements of ~ctsSocketBroker already executed
    wakeup_timer,                   \* the timer exists (not yet reset)
    detached,                       \* records on which detach() has been called
    pool_cleared,                   \* socket_pool.clear() of the destructor has run
    cs_deleted,                     \* DeleteCriticalSection(&cs) has run
    in_flight,                      \* records with a call into the broker in progress
    listening_sockets_refcount,     \* pimpl->listening_sockets_refcount
    accepting_sockets,              \* pimpl->accepting_sockets, as socket ids
    accepting_cs,                   \* socket whose operator() call holds accepting_cs, 0 if free
    submitted_work,                 \* work items submitted whose callback has not started
    socket_alive,                   \* per ctsSocket: a shared_ptr to it still exists
    accept_state,                   \* per ctsSocket: how far the functor is with it
    lowest_refcount,                \* per worker: locals of lines 206-216
    listener_counter,
    listener_position,
    raced,                          \* per worker: a refcount changed since its scan began
    socket_calls                    \* history: calls made on each ctsSocket, in order

counters == <<total_connections_remaining, pending_limit, pending_sockets, active_sockets>>
\* What no method of the broker writes
\* What Startup parses out of the command line, and what the getters return
parsed == <<args, startup, Protocol, ShouldVerifyBuffers, PrePostRecvs, buffersize_low,
            buffersize_high, ratelimit_low, ratelimit_high, BufferSize, TcpBytesPerSecond>>
\* The accept functor
acceptor == <<ListenAddresses, accept_pc, listening_sockets, thread_pool_worker, copies,
              sockets_created, tracked, closesocket_calls, listening_sockets_refcount>>
\* The sockets handed to the accept functor and the workers that serve them
accepting == <<accepting_sockets, accepting_cs, submitted_work, socket_alive, accept_state,
               lowest_refcount, listener_counter, listener_position, raced, socket_calls>>
\* The critical section of the broker and the loop of its owner
lock == <<cs_owner, uncounted>>
\* The destruction of the broker
destruction == <<dtor, wakeup_timer, detached, pool_cleared, cs_deleted, in_flight>>
configuration == <<Settings, break_on_error, failed_result_printed, parsed, acceptor, lock,
                   destruction, accepting>>
vars == <<Settings, phase, total_connections_remaining, pending_limit, pending_sockets,
          active_sockets, done_event, CtrlCHandle, socket_pool, socket_state,
          fReturn, failures, break_on_error, failed_result_printed, parsed, acceptor, lock,
          destruction, accepting>>

\* ------------------------------------------------------------------------
\* Configuration (ctsConfig.cpp)
\* ------------------------------------------------------------------------

\* set_iterations: 0 means infinite (MAXULONGLONG); otherwise any ULONGLONG.
\* 2^(ULONGLONG_BITS-1) is the value whose product with an even
\* ConnectionLimit does not fit in a ULONGLONG.
set_iterations == (1..MaxIterations) \cup {2^(ULONGLONG_BITS - 1), MAXULONGLONG}

\* set_connections: 0 is rejected.
set_connections == 1..MaxConnectionLimit

\* set_throttleConnections: 0 is stored as MAXUINT32.
set_throttleConnections == (1..MaxThrottleLimit) \cup {MAXUINT32}

\* set_serverExitLimit: 0 is stored as MAXULONGLONG.
set_serverExitLimit == (1..MaxServerExitLimit) \cup {MAXULONGLONG}

\* set_accept stores the accept limit of the chosen accept function.
set_accept == 1..MaxAcceptLimit

\* Client options are rejected when listening and server options when not,
\* so the other role's fields keep the values of InitOncectsConfigImpl
\* (ConnectionLimit 1 there is overwritten by the protocol default, kept
\* at 1 here; the throttle default is the largest modelled throttle).
ClientSettings ==
    { [AcceptFunction |-> FALSE, Iterations |-> i, ConnectionLimit |-> c,
       ConnectionThrottleLimit |-> t, ServerExitLimit |-> MAXULONGLONG,
       AcceptLimit |-> MaxAcceptLimit] :
         i \in set_iterations, c \in set_connections, t \in set_throttleConnections }

ServerSettings ==
    { [AcceptFunction |-> TRUE, Iterations |-> MAXULONGLONG, ConnectionLimit |-> 1,
       ConnectionThrottleLimit |-> MAXUINT32, ServerExitLimit |-> e,
       AcceptLimit |-> a] :
         e \in set_serverExitLimit, a \in set_accept }

\* ------------------------------------------------------------------------
\* Constructor, lines 42-59: the two limits
\* ------------------------------------------------------------------------
InitialTotal(S) ==
    IF S.AcceptFunction
    THEN S.ServerExitLimit
    ELSE IF S.Iterations = MAXULONGLONG
         THEN MAXULONGLONG
         ELSE (S.Iterations * S.ConnectionLimit) % (2^ULONGLONG_BITS)

\* The limit taken from the settings without the clamp of lines 57-59.
InitialPendingLimit_NoClamp(S) ==
    IF S.AcceptFunction THEN S.AcceptLimit ELSE S.ConnectionLimit

\* lines 45, 54 and 56-59
InitialPendingLimit(S) ==
    LET limit == IF S.AcceptFunction THEN S.AcceptLimit ELSE S.ConnectionLimit
    IN  IF limit > InitialTotal(S)
        THEN InitialTotal(S) % (2^ULONG_BITS)
        ELSE limit

\* ------------------------------------------------------------------------
\* Startup (ctsConfig.cpp lines 2046-2233) for the options modelled here.
\* A numeric option is absent (<<>>), a single value <<n>> or a range
\* <<low, high>>; a keyword option is "absent" or the word given.
\* ------------------------------------------------------------------------
DefaultBufferSize == 65536

Values == 0..MaxRangeValue
Numbers == {<<>>} \cup {<<n>> : n \in Values}
Ranges == Numbers \cup {<<l, h>> : l \in Values, h \in Values}

\* listen and target are the numbers of addresses that the -listen and the
\* -target options resolve to.
CommandLines ==
    [OnError : {"absent", "log", "break", "other"},
     listen : 0..MaxListenAddresses,
     target : 0..1,
     Protocol : {"absent", "tcp", "udp", "other"},
     buffer : Ranges,
     RateLimit : Ranges,
     verify : {"absent", "always", "data", "never", "connection", "other"},
     PrePostRecvs : Numbers,
     acc : {"absent", "accept", "AcceptEx", "other"}]

\* The command line of a client that names its target and nothing else
NoArgs ==
    [OnError |-> "absent", listen |-> 0, target |-> 1, Protocol |-> "absent",
     buffer |-> <<>>, RateLimit |-> <<>>, verify |-> "absent", PrePostRecvs |-> <<>>,
     acc |-> "absent"]

\* Command lines of a client that vary the traffic options
TrafficCommandLines ==
    { a \in CommandLines : a.listen = 0 /\ a.target = 1 /\ a.acc = "absent" }

\* Command lines that vary the role, the protocol and the accept function
RoleCommandLines ==
    { a \in CommandLines : /\ a.OnError = "absent" /\ a.buffer = <<>> /\ a.RateLimit = <<>>
                           /\ a.verify = "absent" /\ a.PrePostRecvs = <<>> }

\* What a Startup without any of these options leaves behind
StartupDefaults ==
    /\ startup = "returned_true"
    /\ Protocol = "TCP"
    /\ ShouldVerifyBuffers = TRUE
    /\ PrePostRecvs = 1
    /\ buffersize_low = DefaultBufferSize
    /\ buffersize_high = 0
    /\ ratelimit_low = 0
    /\ ratelimit_high = 0
    /\ BufferSize = 0
    /\ TcpBytesPerSecond = 0

\* No socket has been handed to the accept functor
NoAcceptWork ==
    /\ accepting_sockets = <<>>
    /\ accepting_cs = 0
    /\ submitted_work = 0
    /\ socket_alive = [s \in SocketIds |-> TRUE]
    /\ accept_state = [s \in SocketIds |-> "idle"]
    /\ lowest_refcount = [s \in SocketIds |-> 0]
    /\ listener_counter = [s \in SocketIds |-> 0]
    /\ listener_position = [s \in SocketIds |-> 0]
    /\ raced = [s \in SocketIds |-> FALSE]
    /\ socket_calls = [s \in SocketIds |-> <<>>]

\* No accept functor has been constructed
NoAcceptor ==
    /\ accept_pc = "none"
    /\ listening_sockets = <<>>
    /\ thread_pool_worker = FALSE
    /\ copies = 0
    /\ sockets_created = 0
    /\ tracked = {}
    /\ closesocket_calls = <<>>
    /\ listening_sockets_refcount = <<>>
    /\ NoAcceptWork

\* No broker has been constructed
NoBroker ==
    /\ phase = "no_broker"
    /\ total_connections_remaining = 0
    /\ pending_limit = 0
    /\ pending_sockets = 0
    /\ active_sockets = 0
    /\ done_event = FALSE
    /\ CtrlCHandle = FALSE
    /\ socket_pool = <<>>
    /\ socket_state = [r \in RecordIds |-> "None"]
    /\ fReturn = FALSE
    /\ failures = 0
    /\ cs_owner = "none"
    /\ uncounted = 0
    /\ dtor = 0
    /\ wakeup_timer = TRUE
    /\ detached = {}
    /\ pool_cleared = FALSE
    /\ cs_deleted = FALSE
    /\ in_flight = {}

\* The broker right after its timer is armed (line 72)
ConstructedBroker ==
    /\ StartupDefaults
    /\ NoAcceptor
    /\ Settings \in ClientSettings \cup ServerSettings
    /\ ListenAddresses = IF Settings.AcceptFunction THEN 1 ELSE 0
    /\ phase = "armed"
    /\ total_connections_remaining = InitialTotal(Settings)
    /\ pending_limit = InitialPendingLimit(Settings)
    /\ pending_sockets = 0
    /\ active_sockets = 0
    /\ done_event = FALSE
    /\ CtrlCHandle = FALSE
    /\ socket_pool = <<>>
    /\ socket_state = [r \in RecordIds |-> "None"]
    /\ fReturn = FALSE
    /\ failures = 0
    /\ cs_owner = "none"
    /\ uncounted = 0
    /\ dtor = 0
    /\ wakeup_timer = TRUE
    /\ detached = {}
    /\ pool_cleared = FALSE
    /\ cs_deleted = FALSE
    /\ in_flight = {}

\* The default policy is -OnError:log (line 127)
Init ==
    /\ ConstructedBroker
    /\ args = NoArgs
    /\ break_on_error = FALSE
    /\ failed_result_printed = FALSE

\* ------------------------------------------------------------------------
\* Connection records (ctsSocketState).  A record is "Creating" once it is
\* constructed, "Pending" once start() has returned, "Active" once it has
\* reported initiating_io and "Closed" once it has reported closing.
\* ------------------------------------------------------------------------
InPool == { socket_pool[i] : i \in 1..Len(socket_pool) }
Allocated == { r \in RecordIds : socket_state[r] # "None" }
Started == { r \in RecordIds : socket_state[r] \in {"Pending", "Active", "Closed"} }
RecordsConstructed == Cardinality(Allocated)
RecordsCreated == Cardinality(Started)
CreationAttempts == RecordsCreated + failures

Running == phase \in {"armed", "fill", "running"}

\* is_closed(), as the lambda of lines 199-201 asks each record
is_closed(r) == socket_state[r] = "Closed"

\* The erase with its predicate negated.
Reap_Inverted(pool) == SelectSeq(pool, LAMBDA r : is_closed(r))

\* lines 195-203: erase(remove_if(..., is_closed)); the order is kept
Reap(pool) == SelectSeq(pool, LAMBDA r : ~is_closed(r))

\* ------------------------------------------------------------------------
\* The body of both creation loops (lines 84-87 and 231-234), run k times
\* without an exception and then, when thrown # "none", once more up to the
\* statement that throws:
\*     socket_pool.push_back(std::make_shared<ctsSocketState>(this));
\*     (*socket_pool.rbegin())->start();
\*     ++pending_sockets;
\*     --total_connections_remaining;
\* An exception from make_shared/push_back leaves everything as it was; an
\* exception from start() leaves the new record in the pool, unstarted and
\* uncounted.
\* ------------------------------------------------------------------------
\* The loop body with the decrement of total_connections_remaining left out.
CreateAndStart_SkipDecrement(pool, k, thrown) ==
    LET first == RecordsConstructed + 1
        extra == IF thrown = "start" THEN 1 ELSE 0
    IN  /\ RecordsConstructed + k + extra <= MaxRecords
        /\ thrown # "none" => failures < MaxFailures
        /\ socket_pool' = pool \o [i \in 1..(k + extra) |-> first + i - 1]
        /\ socket_state' = [r \in RecordIds |->
                              IF r >= first /\ r < first + k THEN "Pending"
                              ELSE IF r = first + k /\ extra = 1 THEN "Creating"
                              ELSE socket_state[r]]
        /\ pending_sockets' = pending_sockets + k
        /\ total_connections_remaining' = total_connections_remaining
        /\ failures' = failures + (IF thrown = "none" THEN 0 ELSE 1)

\* The loop body with the decrement moved in front of the statements that can
\* throw, so that a failed attempt uses up its slot.
CreateAndStart_DecrementFirst(pool, k, thrown) ==
    LET first == RecordsConstructed + 1
        extra == IF thrown = "start" THEN 1 ELSE 0
        failed == IF thrown = "none" THEN 0 ELSE 1
    IN  /\ RecordsConstructed + k + extra <= MaxRecords
        /\ thrown # "none" => failures < MaxFailures
        /\ socket_pool' = pool \o [i \in 1..(k + extra) |-> first + i - 1]
        /\ socket_state' = [r \in RecordIds |->
                              IF r >= first /\ r < first + k THEN "Pending"
                              ELSE IF r = first + k /\ extra = 1 THEN "Creating"
                              ELSE socket_state[r]]
        /\ pending_sockets' = pending_sockets + k
        /\ total_connections_remaining' = total_connections_remaining - k - failed
        /\ failures' = failures + failed

\* A loop that counts the record before it calls start()
CreateAndStart_CountsBeforeStart(pool, k, thrown) ==
    LET first == RecordsConstructed + 1
        extra == IF thrown = "start" THEN 1 ELSE 0
    IN  /\ RecordsConstructed + k + extra <= MaxRecords
        /\ thrown # "none" => failures < MaxFailures
        /\ socket_pool' = pool \o [i \in 1..(k + extra) |-> first + i - 1]
        /\ socket_state' = [r \in RecordIds |->
                              IF r >= first /\ r < first + k THEN "Pending"
                              ELSE IF r = first + k /\ extra = 1 THEN "Creating"
                              ELSE socket_state[r]]
        /\ pending_sockets' = pending_sockets + k + extra
        /\ total_connections_remaining' = total_connections_remaining - k
        /\ failures' = failures + (IF thrown = "none" THEN 0 ELSE 1)

CreateAndStart(pool, k, thrown) ==
    LET first == RecordsConstructed + 1
        extra == IF thrown = "start" THEN 1 ELSE 0
    IN  /\ RecordsConstructed + k + extra <= MaxRecords
        /\ thrown # "none" => failures < MaxFailures
        /\ socket_pool' = pool \o [i \in 1..(k + extra) |-> first + i - 1]
        /\ socket_state' = [r \in RecordIds |->
                              IF r >= first /\ r < first + k THEN "Pending"
                              ELSE IF r = first + k /\ extra = 1 THEN "Creating"
                              ELSE socket_state[r]]
        /\ pending_sockets' = pending_sockets + k
        /\ total_connections_remaining' = total_connections_remaining - k
        /\ failures' = failures + (IF thrown = "none" THEN 0 ELSE 1)

\* The outcomes of a loop that would run n times if nothing threw: all n
\* iterations succeed, or iteration k+1 throws in make_shared or in start().
LoopOutcomes(n) ==
    { <<n, "none">> } \cup { <<k, t>> : k \in 0..(n - 1), t \in {"make_shared", "start"} }

\* ------------------------------------------------------------------------
\* Constructor, lines 78-96: the initial fill under the lock.
\* Number of iterations of
\*     while ((total_connections_remaining > 0) && (pending_sockets < pending_limit))
\* with the break of lines 91-95 after the increment.
\* ------------------------------------------------------------------------
\* The fill loop without its test of pending_limit.
RECURSIVE InitialFillCount_IgnoresLimit(_, _, _, _)
InitialFillCount_IgnoresLimit(S, total, pending, limit) ==
    IF total > 0
    THEN IF ~S.AcceptFunction /\ S.ConnectionThrottleLimit = pending + 1
         THEN 1
         ELSE 1 + InitialFillCount_IgnoresLimit(S, total - 1, pending + 1, limit)
    ELSE 0

RECURSIVE InitialFillCount(_, _, _, _)
InitialFillCount(S, total, pending, limit) ==
    IF (total > 0) /\ (pending < limit)
    THEN IF ~S.AcceptFunction /\ S.ConnectionThrottleLimit = pending + 1
         THEN 1
         ELSE 1 + InitialFillCount(S, total - 1, pending + 1, limit)
    ELSE 0

\* Constructor, lines 74-76, right after the timer is armed (line 72) and
\* before the lock is taken (line 79): the call of ctsConfig::PrintDebug reads
\* total_connections_remaining and pending_limit.
PrintDebug ==
    /\ phase = "armed"
    /\ phase' = "fill"
    /\ UNCHANGED <<configuration, counters, done_event, CtrlCHandle, socket_pool,
                   socket_state, fReturn, failures>>

\* An exception in the constructor's loop is not caught: construction fails.
InitialFill ==
    /\ phase = "fill"
    /\ \E o \in LoopOutcomes(InitialFillCount(Settings, total_connections_remaining,
                                              pending_sockets, pending_limit)) :
          /\ CreateAndStart(socket_pool, o[1], o[2])
          /\ phase' = IF o[2] = "none" THEN "running" ELSE "ctor_threw"
    /\ UNCHANGED <<configuration, pending_limit, active_sockets, done_event, CtrlCHandle, fReturn>>

\* ------------------------------------------------------------------------
\* initiating_io(), lines 123-134
\* ------------------------------------------------------------------------
\* initiating_io() without the increment of active_sockets.
initiating_io_SkipActive ==
    IF pending_sockets = 0
    THEN /\ phase' = "failfast"
         /\ UNCHANGED <<pending_sockets, active_sockets>>
    ELSE /\ pending_sockets' = pending_sockets - 1
         /\ UNCHANGED <<active_sockets, phase>>

initiating_io ==
    IF pending_sockets = 0
    THEN /\ phase' = "failfast"
         /\ UNCHANGED <<pending_sockets, active_sockets>>
    ELSE /\ pending_sockets' = pending_sockets - 1
         /\ active_sockets' = active_sockets + 1
         /\ UNCHANGED phase

\* ------------------------------------------------------------------------
\* closing(_was_active), lines 139-156
\* ------------------------------------------------------------------------
\* closing() that takes from pending_sockets whatever _was_active says.
closing_IgnoresWasActive(was_active) ==
    IF pending_sockets = 0
    THEN /\ phase' = "failfast"
         /\ UNCHANGED <<pending_sockets, active_sockets>>
    ELSE /\ pending_sockets' = pending_sockets - 1
         /\ UNCHANGED <<active_sockets, phase>>

closing(was_active) ==
    IF was_active
    THEN IF active_sockets = 0
         THEN /\ phase' = "failfast"
              /\ UNCHANGED <<pending_sockets, active_sockets>>
         ELSE /\ active_sockets' = active_sockets - 1
              /\ UNCHANGED <<pending_sockets, phase>>
    ELSE IF pending_sockets = 0
         THEN /\ phase' = "failfast"
              /\ UNCHANGED <<pending_sockets, active_sockets>>
         ELSE /\ pending_sockets' = pending_sockets - 1
              /\ UNCHANGED <<active_sockets, phase>>

\* A pending record reports that its socket is connected.
RecordInitiatingIo(r) ==
    /\ Running
    /\ socket_state[r] = "Pending"
    /\ initiating_io
    /\ socket_state' = IF phase' = "failfast" THEN socket_state
                       ELSE [socket_state EXCEPT ![r] = "Active"]
    /\ UNCHANGED <<configuration, total_connections_remaining, pending_limit, done_event,
                   CtrlCHandle, socket_pool, fReturn, failures>>

\* A record that may report closing again after it has closed.
RecordClosing_Again(r) ==
    /\ Running
    /\ socket_state[r] \in {"Pending", "Active", "Closed"}
    /\ closing(socket_state[r] = "Active")
    /\ socket_state' = IF phase' = "failfast" THEN socket_state
                       ELSE [socket_state EXCEPT ![r] = "Closed"]
    /\ UNCHANGED <<configuration, total_connections_remaining, pending_limit, done_event,
                   CtrlCHandle, socket_pool, fReturn, failures>>

\* A record that reports closing with was_active = true whatever its state.
RecordClosing_AlwaysActive(r) ==
    /\ Running
    /\ socket_state[r] \in {"Pending", "Active"}
    /\ closing(TRUE)
    /\ socket_state' = IF phase' = "failfast" THEN socket_state
                       ELSE [socket_state EXCEPT ![r] = "Closed"]
    /\ UNCHANGED <<configuration, total_connections_remaining, pending_limit, done_event,
                   CtrlCHandle, socket_pool, fReturn, failures>>

\* A started record reports that it has closed; was_active tells whether it
\* had reported initiating_io.
RecordClosing(r) ==
    /\ Running
    /\ socket_state[r] \in {"Pending", "Active"}
    /\ closing(socket_state[r] = "Active")
    /\ socket_state' = IF phase' = "failfast" THEN socket_state
                       ELSE [socket_state EXCEPT ![r] = "Closed"]
    /\ UNCHANGED <<configuration, total_connections_remaining, pending_limit, done_event,
                   CtrlCHandle, socket_pool, fReturn, failures>>

\* ------------------------------------------------------------------------
\* wait(), lines 158-181: both events are manual-reset, so the call returns
\* true exactly when one of them is signalled before the timeout.
\* ------------------------------------------------------------------------
\* wait() looking at the done event only.
wait_IgnoresCtrlC ==
    /\ phase = "running"
    /\ fReturn' = done_event
    /\ UNCHANGED <<configuration, phase, counters, done_event, CtrlCHandle, socket_pool,
                   socket_state, failures>>

wait ==
    /\ phase = "running"
    /\ fReturn' = (done_event \/ CtrlCHandle)
    /\ UNCHANGED <<configuration, phase, counters, done_event, CtrlCHandle, socket_pool,
                   socket_state, failures>>

\* ------------------------------------------------------------------------
\* ctsConfig::Shutdown, ctsConfig.cpp lines 2235-2247: SetEvent(CtrlCHandle)
\* ------------------------------------------------------------------------
Shutdown ==
    /\ phase # "failfast"
    /\ CtrlCHandle' = TRUE
    /\ UNCHANGED <<configuration, phase, counters, done_event, socket_pool, socket_state,
                   fReturn, failures>>

\* ------------------------------------------------------------------------
\* TimerCallback, lines 187-242
\* ------------------------------------------------------------------------

\* The exit test without the look at active_sockets.
NoMoreWork_IgnoresActive ==
    /\ 0 = total_connections_remaining
    /\ 0 = pending_sockets

\* The exit test without the look at total_connections_remaining.
NoMoreWork_IgnoresRemaining ==
    /\ 0 = pending_sockets
    /\ 0 = active_sockets

\* lines 207-209
NoMoreWork ==
    /\ 0 = total_connections_remaining
    /\ 0 = pending_sockets
    /\ 0 = active_sockets

\* The catch-up loop with its first comparison the wrong way round.
RefillCount_WrongCompare(S, total, pending, active, limit) ==
    IF (pending > limit) /\ (total > 0) THEN 1 ELSE 0

\* The catch-up loop without the throttle test of lines 225-228.
RECURSIVE RefillCount_NoThrottle(_, _, _, _, _)
RefillCount_NoThrottle(S, total, pending, active, limit) ==
    IF (pending < limit) /\ (total > 0)
    THEN IF ~S.AcceptFunction /\ (pending + active) >= S.ConnectionLimit
         THEN 0
         ELSE 1 + RefillCount_NoThrottle(S, total - 1, pending + 1, active, limit)
    ELSE 0

\* lines 217-235: number of iterations of the catch-up loop
RECURSIVE RefillCount(_, _, _, _, _)
RefillCount(S, total, pending, active, limit) ==
    IF (pending < limit) /\ (total > 0)
    THEN IF ~S.AcceptFunction /\ ((pending + active) >= S.ConnectionLimit
                                  \/ pending >= S.ConnectionThrottleLimit)
         THEN 0
         ELSE 1 + RefillCount(S, total - 1, pending + 1, active, limit)
    ELSE 0

TimerCallback ==
    /\ Running
    /\ IF NoMoreWork
       THEN /\ done_event' = TRUE
            /\ socket_pool' = Reap(socket_pool)
            /\ UNCHANGED <<total_connections_remaining, pending_sockets, socket_state, failures>>
       ELSE IF done_event
       THEN /\ socket_pool' = Reap(socket_pool)
            /\ UNCHANGED <<total_connections_remaining, pending_sockets, socket_state,
                           failures, done_event>>
       ELSE \E o \in LoopOutcomes(RefillCount(Settings, total_connections_remaining,
                                              pending_sockets, active_sockets, pending_limit)) :
               /\ CreateAndStart(Reap(socket_pool), o[1], o[2])
               /\ UNCHANGED done_event
    /\ UNCHANGED <<configuration, phase, pending_limit, active_sockets, CtrlCHandle, fReturn>>

Next ==
    \/ PrintDebug
    \/ InitialFill
    \/ TimerCallback
    \/ \E r \in RecordIds : RecordInitiatingIo(r)
    \/ \E r \in RecordIds : RecordClosing(r)
    \/ wait
    \/ Shutdown

Spec == Init /\ [][Next]_vars

TypeOK ==
    /\ phase \in {"no_broker", "armed", "fill", "running", "ctor_threw", "failfast"}
    /\ total_connections_remaining \in 0..MAXULONGLONG
    /\ pending_limit \in 0..MAXUINT32
    /\ pending_sockets \in 0..MAXUINT32
    /\ active_sockets \in 0..MAXUINT32
    /\ done_event \in BOOLEAN /\ CtrlCHandle \in BOOLEAN /\ fReturn \in BOOLEAN
    /\ failures \in 0..MaxFailures
    /\ break_on_error \in BOOLEAN /\ failed_result_printed \in BOOLEAN
    /\ args \in CommandLines
    /\ startup \in {"not_called", "returned_true", "invalid_argument", "exception"}
    /\ Protocol \in {"TCP", "UDP"}
    /\ ShouldVerifyBuffers \in BOOLEAN
    /\ PrePostRecvs \in Values
    /\ buffersize_low \in Values \cup {DefaultBufferSize}
    /\ buffersize_high \in Values
    /\ ratelimit_low \in Values /\ ratelimit_high \in Values
    /\ BufferSize \in Values \cup {DefaultBufferSize}
    /\ TcpBytesPerSecond \in Values
    /\ cs_owner \in {"none", "constructor", "TimerCallback"}
    /\ uncounted \in RecordIds \cup {0}
    /\ dtor \in 0..4
    /\ wakeup_timer \in BOOLEAN /\ pool_cleared \in BOOLEAN /\ cs_deleted \in BOOLEAN
    /\ detached \subseteq RecordIds /\ in_flight \subseteq RecordIds
    /\ ListenAddresses \in 0..MaxListenAddresses
    /\ accept_pc \in {"none", "listen", "constructed", "ctor_threw", "destroyed"}
    /\ thread_pool_worker \in BOOLEAN
    /\ copies \in 0..MaxCopies
    /\ sockets_created \in 0..MaxListenAddresses
    /\ tracked \subseteq 1..MaxListenAddresses
    /\ Len(listening_sockets) <= ListenAddresses

\* ------------------------------------------------------------------------
\* The callbacks as a public interface: initiating_io() and closing() are
\* public methods, callable in any state of the counters.
\* ------------------------------------------------------------------------
CallInitiatingIo ==
    /\ Running
    /\ initiating_io
    /\ UNCHANGED <<configuration, total_connections_remaining, pending_limit, done_event,
                   CtrlCHandle, socket_pool, socket_state, fReturn, failures>>

CallClosing(was_active) ==
    /\ Running
    /\ closing(was_active)
    /\ UNCHANGED <<configuration, total_connections_remaining, pending_limit, done_event,
                   CtrlCHandle, socket_pool, socket_state, fReturn, failures>>

NextApi ==
    \/ PrintDebug
    \/ InitialFill
    \/ TimerCallback
    \/ CallInitiatingIo
    \/ \E was_active \in BOOLEAN : CallClosing(was_active)

SpecApi == Init /\ [][NextApi]_vars

\* ------------------------------------------------------------------------
\* Fairness.  The timer is periodic (schedule_reoccuring, line 72), so a tick
\* in which nothing throws keeps coming; the constructor's thread goes on to
\* its fill; every started record eventually reports closing; the caller
\* keeps calling wait() until it returns true.
\* ------------------------------------------------------------------------
TimerCallbackNoThrow == TimerCallback /\ failures' = failures

\* Termination is stated for the configurations whose total is finite and
\* fits the bound on records, failed attempts included.
InitLive ==
    /\ Init
    /\ InitialTotal(Settings) + MaxFailures <= MaxRecords

LiveSpec ==
    /\ InitLive
    /\ [][Next]_vars
    /\ WF_vars(PrintDebug)
    /\ WF_vars(InitialFill)
    /\ WF_vars(TimerCallbackNoThrow)
    /\ \A r \in RecordIds : WF_vars(RecordClosing(r))
    /\ WF_vars(wait)

\* ------------------------------------------------------------------------
\* Error reporting (ctsConfig.cpp).  The connection code reports a failure
\* with PrintErrorIfFailed and a finished connection with
\* PrintConnectionResults; 0 is success, any other code a failure.
\* ------------------------------------------------------------------------
ErrorCodes == {0, 1}

\* Shutdown sets shutdown_called (line 2240) and the event (line 2242) under
\* one lock; the event exists from Startup on (line 2074)
shutdown_called == CtrlCHandle

\* PrintErrorIfFailed without its test of shutdown_called.
PrintErrorIfFailed_IgnoresShutdown(why) ==
    /\ phase # "failfast"
    /\ phase' = IF (why # 0) /\ break_on_error THEN "failfast" ELSE phase
    /\ UNCHANGED <<configuration, counters, done_event, CtrlCHandle, socket_pool,
                   socket_state, fReturn, failures>>

\* lines 2436-2486: ctFatalCondition(break_on_error, ...) raises a
\* non-continuable fail-fast exception (ctException.hpp lines 729-750); the
\* rest only writes the error text
PrintErrorIfFailed(why) ==
    /\ phase # "failfast"
    /\ phase' = IF ~shutdown_called /\ (why # 0) /\ break_on_error
                THEN "failfast" ELSE phase
    /\ UNCHANGED <<configuration, counters, done_event, CtrlCHandle, socket_pool,
                   socket_state, fReturn, failures>>

\* PrintConnectionResults raising the fatal condition itself.
PrintConnectionResults_Breaks(error) ==
    /\ phase # "failfast"
    /\ Started # {}
    /\ failed_result_printed' = (failed_result_printed \/ error # 0)
    /\ phase' = IF (error # 0) /\ break_on_error THEN "failfast" ELSE phase
    /\ UNCHANGED <<Settings, break_on_error, parsed, acceptor, lock, destruction, accepting, counters, done_event, CtrlCHandle,
                   socket_pool, socket_state, fReturn, failures>>

\* lines 2630-2752: classifies the error and writes the result line, also
\* after shutdown; break_on_error is not looked at.  It is called for a
\* connection, so one has been started.
PrintConnectionResults(error) ==
    /\ phase # "failfast"
    /\ Started # {}
    /\ failed_result_printed' = (failed_result_printed \/ error # 0)
    /\ UNCHANGED <<Settings, break_on_error, parsed, acceptor, lock, destruction, accepting, phase, counters, done_event, CtrlCHandle,
                   socket_pool, socket_state, fReturn, failures>>

\* A run with either -OnError policy, of a total that fits the bound on
\* records
InitError ==
    /\ ConstructedBroker
    /\ InitialTotal(Settings) + MaxFailures <= MaxRecords
    /\ break_on_error \in BOOLEAN
    /\ args = [NoArgs EXCEPT !.OnError = IF break_on_error THEN "break" ELSE "log"]
    /\ failed_result_printed = FALSE

NextError ==
    \/ Next
    \/ \E why \in ErrorCodes : PrintErrorIfFailed(why)
    \/ \E error \in ErrorCodes : PrintConnectionResults(error)

SpecError == InitError /\ [][NextError]_vars

\* ------------------------------------------------------------------------
\* Parsing the command line.  Each set_* yields what it has assigned when
\* it returns or throws; Startup runs them in the order of lines 2089-2198
\* and stops at the first one that throws.
\* ------------------------------------------------------------------------
set_error(a) ==
    [thrown |-> a.OnError \notin {"absent", "log", "break"},
     break_on_error |-> IF a.OnError = "log" THEN FALSE
                        ELSE IF a.OnError = "break" THEN TRUE
                        ELSE break_on_error]

set_protocol(a) ==
    [thrown |-> a.Protocol \notin {"absent", "tcp", "udp"},
     Protocol |-> IF a.Protocol \in {"absent", "tcp"} THEN "TCP"
                  ELSE IF a.Protocol = "udp" THEN "UDP"
                  ELSE Protocol]

\* get_range(value, out_low, out_high) writes out_low, then out_high, then
\* compares the two objects; same_object is TRUE when the caller passes one
\* variable for both references.
get_range(value, same_object) ==
    LET out_high == value[2]
        out_low == IF same_object THEN out_high ELSE value[1]
    IN  [low |-> out_low, high |-> out_high, thrown |-> out_high < out_low]

set_buffer(a, protocol) ==
    IF a.buffer = <<>>
    THEN [thrown |-> FALSE, low |-> DefaultBufferSize, high |-> 0]
    ELSE IF protocol # "TCP"
    THEN [thrown |-> TRUE, low |-> buffersize_low, high |-> buffersize_high]
    ELSE IF Len(a.buffer) = 2
    THEN LET r == get_range(a.buffer, FALSE)
         IN  [thrown |-> r.thrown \/ r.low = 0, low |-> r.low, high |-> r.high]
    ELSE [thrown |-> a.buffer[1] = 0, low |-> a.buffer[1], high |-> buffersize_high]

\* Line 1268 passes ratelimit_low for both references of get_range
set_ratelimit(a, protocol) ==
    IF a.RateLimit = <<>> \/ protocol # "TCP"
    THEN [thrown |-> a.RateLimit # <<>>, low |-> ratelimit_low, high |-> ratelimit_high]
    ELSE IF Len(a.RateLimit) = 2
    THEN LET r == get_range(a.RateLimit, TRUE)
         IN  [thrown |-> r.thrown \/ r.low = 0, low |-> r.low, high |-> ratelimit_high]
    ELSE [thrown |-> a.RateLimit[1] = 0, low |-> a.RateLimit[1], high |-> ratelimit_high]

\* Called right after Settings->ShouldVerifyBuffers = true (line 2186)
set_shouldVerifyBuffers(a) ==
    [thrown |-> a.verify \notin {"absent", "always", "data", "never", "connection"},
     ShouldVerifyBuffers |-> a.verify \notin {"never", "connection"}]

set_prepostrecvs(a) ==
    IF a.PrePostRecvs = <<>>
    THEN [thrown |-> FALSE, PrePostRecvs |-> 1]
    ELSE [thrown |-> a.PrePostRecvs[1] = 0, PrePostRecvs |-> a.PrePostRecvs[1]]

\* set_address, lines 817-930, for -listen and -target: the addresses are
\* stored as they are parsed, before the tests that throw
set_address(a) ==
    [thrown |-> (a.listen > 0 /\ a.target > 0) \/ (a.listen = 0 /\ a.target = 0),
     ListenAddresses |-> a.listen]

\* ctsSimpleAccept(): the constructor throws when there is no listen
\* address (ctsSimpleAccept.hpp lines 155-157) and when a call it makes
\* fails; constructs says whether every call succeeded.
ctsSimpleAccept(listening, constructs) ==
    listening > 0 /\ constructs

\* ctsAcceptEx(): taken to construct under the same conditions
ctsAcceptEx(listening, constructs) ==
    listening > 0 /\ constructs

\* The choice of set_accept, storing the default function whatever the role
set_acceptFunction_AlwaysDefaults(a, protocol, listening, constructs) ==
    IF a.acc = "absent"
    THEN [thrown |-> FALSE, AcceptFunction |-> TRUE]
    ELSE IF protocol # "TCP" \/ a.acc = "other"
    THEN [thrown |-> TRUE, AcceptFunction |-> Settings.AcceptFunction]
    ELSE LET constructed == IF a.acc = "accept" THEN ctsSimpleAccept(listening, constructs)
                            ELSE ctsAcceptEx(listening, constructs)
         IN  [thrown |-> ~constructed,
              AcceptFunction |-> IF constructed THEN TRUE ELSE Settings.AcceptFunction]

\* set_accept, lines 427-463: the function it stores.  AcceptFunction is
\* TRUE when the std::function
\* holds a target.  Without --acc a listener gets ctsAcceptEx() (TCP) or
\* the media stream listener, a function (UDP).
set_acceptFunction(a, protocol, listening, constructs) ==
    IF a.acc = "absent"
    THEN [thrown |-> listening > 0 /\ protocol = "TCP" /\ ~ctsAcceptEx(listening, constructs),
          AcceptFunction |-> IF listening > 0
                                /\ (protocol = "UDP" \/ ctsAcceptEx(listening, constructs))
                             THEN TRUE
                             ELSE Settings.AcceptFunction]
    ELSE IF protocol # "TCP" \/ a.acc = "other"
    THEN [thrown |-> TRUE, AcceptFunction |-> Settings.AcceptFunction]
    ELSE LET constructed == IF a.acc = "accept" THEN ctsSimpleAccept(listening, constructs)
                            ELSE ctsAcceptEx(listening, constructs)
         IN  [thrown |-> ~constructed,
              AcceptFunction |-> IF constructed THEN TRUE ELSE Settings.AcceptFunction]

\* Lines 2196-2198 with the protocol test reversed
VerifyConflict_WrongProtocol(protocol, verify, recvs) ==
    protocol = "UDP" /\ verify /\ recvs > 1

\* Lines 2196-2198
VerifyConflict(protocol, verify, recvs) ==
    protocol = "TCP" /\ verify /\ recvs > 1

Startup ==
    /\ startup = "not_called"
    /\ \E constructs \in BOOLEAN :
       LET e == set_error(args)
           d == set_address(args)
           p == set_protocol(args)
           b == set_buffer(args, p.Protocol)
           l == set_ratelimit(args, p.Protocol)
           v == set_shouldVerifyBuffers(args)
           r == set_prepostrecvs(args)
           f == set_acceptFunction(args, p.Protocol, d.ListenAddresses, constructs)
           \* the first step that throws; 10 when none does
           last == IF e.thrown THEN 1
                   ELSE IF d.thrown THEN 2
                   ELSE IF p.thrown THEN 3
                   ELSE IF b.thrown THEN 4
                   ELSE IF l.thrown THEN 5
                   ELSE IF v.thrown THEN 6
                   ELSE IF r.thrown THEN 7
                   ELSE IF VerifyConflict(p.Protocol, v.ShouldVerifyBuffers, r.PrePostRecvs)
                   THEN 8
                   ELSE IF f.thrown THEN 9
                   ELSE 10
       IN  /\ break_on_error' = e.break_on_error
           /\ ListenAddresses' = IF last >= 2 THEN d.ListenAddresses ELSE ListenAddresses
           /\ Protocol' = IF last >= 3 THEN p.Protocol ELSE Protocol
           /\ buffersize_low' = IF last >= 4 THEN b.low ELSE buffersize_low
           /\ buffersize_high' = IF last >= 4 THEN b.high ELSE buffersize_high
           /\ ratelimit_low' = IF last >= 5 THEN l.low ELSE ratelimit_low
           /\ ratelimit_high' = IF last >= 5 THEN l.high ELSE ratelimit_high
           /\ ShouldVerifyBuffers' = IF last >= 6 THEN v.ShouldVerifyBuffers ELSE ShouldVerifyBuffers
           /\ PrePostRecvs' = IF last >= 7 THEN r.PrePostRecvs ELSE PrePostRecvs
           /\ Settings' = IF last >= 9
                          THEN [Settings EXCEPT !.AcceptFunction = f.AcceptFunction]
                          ELSE Settings
           /\ startup' = IF last = 10 THEN "returned_true"
                         ELSE IF last = 9 /\ args.acc \in {"absent", "accept", "AcceptEx"}
                                 /\ p.Protocol = "TCP"
                         THEN "exception"
                         ELSE "invalid_argument"
    /\ UNCHANGED <<accept_pc, listening_sockets, thread_pool_worker, copies, sockets_created,
                   tracked, closesocket_calls, listening_sockets_refcount>>
    /\ UNCHANGED <<failed_result_printed, args, BufferSize, TcpBytesPerSecond, lock, destruction, accepting,
                   phase, counters, done_event, CtrlCHandle, socket_pool, socket_state,
                   fReturn, failures>>

\* random.uniform_int(low, high): any integer of the closed interval
uniform_int(low, high) == low..high

GetBufferSize ==
    /\ startup = "returned_true"
    /\ BufferSize' \in IF 0 = buffersize_high
                       THEN {buffersize_low}
                       ELSE uniform_int(buffersize_low, buffersize_high)
    /\ UNCHANGED <<Settings, break_on_error, failed_result_printed, args, startup, Protocol,
                   ShouldVerifyBuffers, PrePostRecvs, buffersize_low, buffersize_high,
                   ratelimit_low, ratelimit_high, TcpBytesPerSecond, acceptor, lock,
                   destruction, accepting,
                   phase, counters, done_event, CtrlCHandle, socket_pool, socket_state,
                   fReturn, failures>>

GetTcpBytesPerSecond ==
    /\ startup = "returned_true"
    /\ TcpBytesPerSecond' \in IF 0 = ratelimit_high
                              THEN {ratelimit_low}
                              ELSE uniform_int(ratelimit_low, ratelimit_high)
    /\ UNCHANGED <<Settings, break_on_error, failed_result_printed, args, startup, Protocol,
                   ShouldVerifyBuffers, PrePostRecvs, buffersize_low, buffersize_high,
                   ratelimit_low, ratelimit_high, BufferSize, acceptor, lock, destruction, accepting,
                   phase, counters, done_event, CtrlCHandle, socket_pool, socket_state,
                   fReturn, failures>>

\* The process before Startup: the statics of lines 98-128 and the Settings
\* of InitOncectsConfigImpl (lines 140-160); no broker exists yet.
InitConfig ==
    /\ args \in TrafficCommandLines \cup RoleCommandLines
    /\ startup = "not_called"
    /\ Protocol = "TCP"
    /\ ShouldVerifyBuffers = TRUE
    /\ PrePostRecvs = 0
    /\ buffersize_low = 0
    /\ buffersize_high = 0
    /\ ratelimit_low = 0
    /\ ratelimit_high = 0
    /\ BufferSize = 0
    /\ TcpBytesPerSecond = 0
    /\ break_on_error = FALSE
    /\ failed_result_printed = FALSE
    /\ Settings = [AcceptFunction |-> FALSE, Iterations |-> MAXULONGLONG, ConnectionLimit |-> 1,
                   ConnectionThrottleLimit |-> MAXUINT32, ServerExitLimit |-> MAXULONGLONG,
                   AcceptLimit |-> MaxAcceptLimit]
    /\ ListenAddresses = 0
    /\ NoAcceptor
    /\ NoBroker

NextConfig ==
    \/ Startup
    \/ GetBufferSize
    \/ GetTcpBytesPerSecond

SpecConfig == InitConfig /\ [][NextConfig]_vars

\* ------------------------------------------------------------------------
\* ctsSimpleAccept (SocketFunctions/ctsSimpleAccept.hpp): construction and
\* destruction of the accept functor and of the impl object its copies
\* share.  Socket handles are numbered in the order WSASocket returns them.
\* ------------------------------------------------------------------------
INVALID_SOCKET == MAXUINT32

\* The scope guard of line 140, run when an iteration of the listen loop is
\* left: the closesocket calls it makes.
closeSocketOnError(listening, dismissed) ==
    IF ~dismissed /\ listening # INVALID_SOCKET
    THEN <<[socket |-> listening, by |-> "closeSocketOnError"]>>
    ELSE <<>>

\* ~ctsSimpleAcceptImpl without the loop of lines 79-83
ImplDestructorCloses_Nothing(sockets) ==
    <<>>

\* ~ctsSimpleAcceptImpl, lines 79-83: the closesocket calls it makes
ImplDestructorCloses(sockets) ==
    [i \in 1..Len(sockets) |-> [socket |-> sockets[i], by |-> "~ctsSimpleAcceptImpl"]]

\* The constructor throws: the members of the functor are destroyed, pimpl
\* is the only reference, so ~ctsSimpleAcceptImpl runs (lines 76-93).
ConstructorThrows(calls, sockets) ==
    /\ accept_pc' = "ctor_threw"
    /\ closesocket_calls' = calls \o ImplDestructorCloses(sockets)
    /\ listening_sockets' = <<>>
    /\ copies' = 0

\* Lines 120-133: the impl object, its critical section, its work item
ConstructAcceptor ==
    /\ accept_pc = "none"
    /\ \E failed \in {"none", "InitializeCriticalSectionAndSpinCount", "CreateThreadpoolWork"} :
          IF failed = "none"
          THEN /\ accept_pc' = "listen"
               /\ thread_pool_worker' = TRUE
               /\ UNCHANGED <<closesocket_calls, listening_sockets, copies>>
          ELSE /\ ConstructorThrows(closesocket_calls, listening_sockets)
               /\ UNCHANGED thread_pool_worker
    /\ UNCHANGED <<ListenAddresses, sockets_created, tracked, listening_sockets_refcount>>
    /\ UNCHANGED <<Settings, break_on_error, failed_result_printed, parsed, lock, destruction, accepting,
                   phase, counters,
                   done_event, CtrlCHandle, socket_pool, socket_state, fReturn, failures>>

\* What can fail in one iteration of the listen loop (lines 136-154)
ListenFailures ==
    {"WSASocket", "SetPreBindOptions", "SetPreConnectOptions", "bind", "listen",
     "push_back", "writeCompleteAddress"}

\* One iteration of the loop of lines 136-154, for the next listen address
ListenToAddress ==
    /\ accept_pc = "listen"
    /\ Len(listening_sockets) < ListenAddresses
    /\ \E failed \in ListenFailures \cup {"none"} :
          LET listening == IF failed = "WSASocket" THEN INVALID_SOCKET
                           ELSE sockets_created + 1
              pushed == failed \in {"writeCompleteAddress", "none"}
              sockets == IF pushed THEN Append(listening_sockets, listening)
                         ELSE listening_sockets
              guard == closeSocketOnError(listening, pushed)
          IN  /\ sockets_created' = IF failed = "WSASocket" THEN sockets_created
                                    ELSE sockets_created + 1
              /\ tracked' = IF pushed THEN tracked \cup {listening} ELSE tracked
              /\ IF failed = "none"
                 THEN /\ listening_sockets' = sockets
                      /\ closesocket_calls' = closesocket_calls \o guard
                      /\ UNCHANGED <<accept_pc, copies>>
                 ELSE ConstructorThrows(closesocket_calls \o guard, sockets)
    /\ UNCHANGED <<ListenAddresses, thread_pool_worker, listening_sockets_refcount>>
    /\ UNCHANGED <<Settings, break_on_error, failed_result_printed, parsed, lock, destruction, accepting,
                   phase, counters,
                   done_event, CtrlCHandle, socket_pool, socket_state, fReturn, failures>>

\* Lines 155-158: no listener at all is an error; the refcounts are sized
FinishConstruction ==
    /\ accept_pc = "listen"
    /\ Len(listening_sockets) = ListenAddresses
    /\ \E failed \in {"none", "resize"} :
          IF listening_sockets # <<>> /\ failed = "none"
          THEN /\ accept_pc' = "constructed"
               /\ copies' = 1
               /\ listening_sockets_refcount' = [i \in 1..Len(listening_sockets) |-> 0]
               /\ UNCHANGED <<closesocket_calls, listening_sockets>>
          ELSE /\ ConstructorThrows(closesocket_calls, listening_sockets)
               /\ UNCHANGED listening_sockets_refcount
    /\ UNCHANGED <<ListenAddresses, sockets_created, tracked, thread_pool_worker>>
    /\ UNCHANGED <<Settings, break_on_error, failed_result_printed, parsed, lock, destruction, accepting,
                   phase, counters,
                   done_event, CtrlCHandle, socket_pool, socket_state, fReturn, failures>>

\* The functor is copy constructed (lines 40-42): one more owner of pimpl
CopyAcceptor ==
    /\ accept_pc = "constructed"
    /\ copies < MaxCopies
    /\ copies' = copies + 1
    /\ UNCHANGED <<ListenAddresses, accept_pc, listening_sockets, sockets_created,
                   closesocket_calls, tracked, thread_pool_worker,
                   listening_sockets_refcount>>
    /\ UNCHANGED <<Settings, break_on_error, failed_result_printed, parsed, lock, destruction, accepting,
                   phase, counters,
                   done_event, CtrlCHandle, socket_pool, socket_state, fReturn, failures>>

\* A copy of the functor is destroyed; the last one destroys the impl
DestroyAcceptor ==
    /\ accept_pc = "constructed"
    /\ copies' = copies - 1
    /\ IF copies = 1
       THEN /\ accept_pc' = "destroyed"
            /\ closesocket_calls' = closesocket_calls \o ImplDestructorCloses(listening_sockets)
            /\ listening_sockets' = <<>>
       ELSE UNCHANGED <<accept_pc, closesocket_calls, listening_sockets>>
    /\ UNCHANGED <<ListenAddresses, sockets_created, tracked, thread_pool_worker,
                   listening_sockets_refcount>>
    /\ UNCHANGED <<Settings, break_on_error, failed_result_printed, parsed, lock, destruction, accepting,
                   phase, counters,
                   done_event, CtrlCHandle, socket_pool, socket_state, fReturn, failures>>

InitAccept ==
    /\ NoBroker
    /\ StartupDefaults
    /\ args = NoArgs
    /\ break_on_error = FALSE
    /\ failed_result_printed = FALSE
    /\ Settings \in ServerSettings
    /\ ListenAddresses \in 0..MaxListenAddresses
    /\ NoAcceptor

NextAccept ==
    \/ ConstructAcceptor
    \/ ListenToAddress
    \/ FinishConstruction
    \/ CopyAcceptor
    \/ DestroyAcceptor

SpecAccept == InitAccept /\ [][NextAccept]_vars

\* ------------------------------------------------------------------------
\* The creation loops statement by statement.  The constructor and the
\* tick own the critical section while they loop; initiating_io() and
\* closing() take it (lines 125, 141) and run on the threads of the pool,
\* so they wait while it is owned.  In each iteration start() returns
\* before ++pending_sockets: uncounted is the record in between.
\* ------------------------------------------------------------------------
\* A callback that does not wait for the critical section
CallbackMayEnter_NoLock ==
    TRUE

\* ctAutoReleaseCriticalSection lock_broker(&cs), lines 125 and 141
CallbackMayEnter ==
    cs_owner = "none"

\* Line 79
EnterFill ==
    /\ phase = "fill"
    /\ cs_owner = "none"
    /\ cs_owner' = "constructor"
    /\ UNCHANGED <<Settings, break_on_error, failed_result_printed, parsed, acceptor, uncounted,
                   destruction, accepting,
                   phase, counters, done_event, CtrlCHandle, socket_pool, socket_state,
                   fReturn, failures>>

\* Lines 189-216: lock, reap, and the tests that come before the loop
EnterTick ==
    /\ Running
    /\ cs_owner = "none"
    /\ socket_pool' = Reap(socket_pool)
    /\ done_event' = (done_event \/ NoMoreWork)
    /\ cs_owner' = IF NoMoreWork \/ done_event THEN "none" ELSE "TimerCallback"
    /\ UNCHANGED <<Settings, break_on_error, failed_result_printed, parsed, acceptor, uncounted,
                   destruction, accepting,
                   phase, counters, CtrlCHandle, socket_state, fReturn, failures>>

\* The conditions under which the loop of the owner runs once more:
\* line 83 for the constructor, lines 217-229 for the tick
LoopContinues ==
    IF cs_owner = "constructor"
    THEN total_connections_remaining > 0 /\ pending_sockets < pending_limit
    ELSE /\ pending_sockets < pending_limit
         /\ total_connections_remaining > 0
         /\ Settings.AcceptFunction
               \/ ~ \/ pending_sockets + active_sockets >= Settings.ConnectionLimit
                    \/ pending_sockets >= Settings.ConnectionThrottleLimit

\* The owner leaves its loop and its function; the lock is released
LeaveLoop(thrown) ==
    /\ cs_owner' = "none"
    /\ phase' = IF cs_owner = "constructor"
                THEN (IF thrown THEN "ctor_threw" ELSE "running")
                ELSE phase

\* Lines 84-85 and 231-232: push_back(make_shared) and start()
StartRecord ==
    /\ cs_owner # "none"
    /\ uncounted = 0
    /\ LoopContinues
    /\ RecordsConstructed < MaxRecords
    /\ \E thrown \in {"none", "make_shared", "start"} :
          LET r == RecordsConstructed + 1
          IN  /\ thrown # "none" => failures < MaxFailures
              /\ failures' = failures + (IF thrown = "none" THEN 0 ELSE 1)
              /\ IF thrown = "make_shared"
                 THEN UNCHANGED <<socket_pool, socket_state>>
                 ELSE /\ socket_pool' = Append(socket_pool, r)
                      /\ socket_state' = [socket_state EXCEPT
                                             ![r] = IF thrown = "start" THEN "Creating"
                                                    ELSE "Pending"]
              /\ IF thrown = "none"
                 THEN uncounted' = r /\ UNCHANGED <<cs_owner, phase>>
                 ELSE uncounted' = 0 /\ LeaveLoop(TRUE)
    /\ UNCHANGED <<Settings, break_on_error, failed_result_printed, parsed, acceptor,
                   destruction, accepting, counters, done_event, CtrlCHandle, fReturn>>

\* Lines 86-94 and 233-234: the record is counted; the constructor then
\* tests the throttle
CountRecord ==
    /\ cs_owner # "none"
    /\ uncounted # 0
    /\ pending_sockets' = pending_sockets + 1
    /\ total_connections_remaining' = total_connections_remaining - 1
    /\ uncounted' = 0
    /\ IF /\ cs_owner = "constructor"
          /\ ~Settings.AcceptFunction
          /\ Settings.ConnectionThrottleLimit = pending_sockets + 1
       THEN LeaveLoop(FALSE)
       ELSE UNCHANGED <<cs_owner, phase>>
    /\ UNCHANGED <<Settings, break_on_error, failed_result_printed, parsed, acceptor,
                   destruction, accepting, pending_limit, active_sockets, done_event, CtrlCHandle, socket_pool,
                   socket_state, fReturn, failures>>

\* The loop condition is false
EndLoop ==
    /\ cs_owner # "none"
    /\ uncounted = 0
    /\ ~LoopContinues
    /\ LeaveLoop(FALSE)
    /\ UNCHANGED <<Settings, break_on_error, failed_result_printed, parsed, acceptor, uncounted,
                   destruction, accepting,
                   counters, done_event, CtrlCHandle, socket_pool, socket_state,
                   fReturn, failures>>

LockedInitiatingIo(r) ==
    /\ CallbackMayEnter
    /\ RecordInitiatingIo(r)

LockedClosing(r) ==
    /\ CallbackMayEnter
    /\ RecordClosing(r)

InitLock ==
    /\ Init
    /\ InitialTotal(Settings) + MaxFailures <= MaxRecords

NextLock ==
    \/ PrintDebug
    \/ EnterFill
    \/ EnterTick
    \/ StartRecord
    \/ CountRecord
    \/ EndLoop
    \/ \E r \in RecordIds : LockedInitiatingIo(r)
    \/ \E r \in RecordIds : LockedClosing(r)
    \/ wait
    \/ Shutdown

SpecLock == InitLock /\ [][NextLock]_vars

\* ------------------------------------------------------------------------
\* ~ctsSocketBroker, lines 99-116.  The destructor takes no lock; it runs
\* once wait() has returned true.  The timer and the records belong to
\* ctThreadpoolTimer and ctsSocketState: resetting the timer ends the ticks,
\* a detached record starts no further call into the broker, and destroying
\* a record (socket_pool.clear()) waits for a call it has in progress, as
\* the comments of lines 101-112 say.
\* ------------------------------------------------------------------------
\* A destructor that deletes the critical section before it clears the pool
DestructorStatements_DeleteBeforeClear ==
    <<"wakeup_timer.reset", "detach", "DeleteCriticalSection", "socket_pool.clear">>

\* The statements of the destructor, in the order of lines 102, 105-107,
\* 112 and 115
DestructorStatements ==
    <<"wakeup_timer.reset", "detach", "socket_pool.clear", "DeleteCriticalSection">>

\* The first record of the pool the loop of lines 105-107 has not reached
Undetached == { i \in 1..Len(socket_pool) : socket_pool[i] \notin detached }

Destructor ==
    /\ phase = "running"
    /\ fReturn
    /\ dtor < Len(DestructorStatements)
    /\ LET statement == DestructorStatements[dtor + 1]
       IN  /\ statement = "socket_pool.clear" => in_flight \cap InPool = {}
           /\ wakeup_timer' = (wakeup_timer /\ statement # "wakeup_timer.reset")
           /\ detached' = IF statement = "detach" /\ Undetached # {}
                          THEN detached \cup {socket_pool[CHOOSE i \in Undetached :
                                                             \A j \in Undetached : i <= j]}
                          ELSE detached
           /\ dtor' = IF statement = "detach" /\ Undetached # {} THEN dtor ELSE dtor + 1
           /\ socket_pool' = IF statement = "socket_pool.clear" THEN <<>> ELSE socket_pool
           /\ pool_cleared' = (pool_cleared \/ statement = "socket_pool.clear")
           /\ cs_deleted' = (cs_deleted \/ statement = "DeleteCriticalSection")
    /\ UNCHANGED <<Settings, break_on_error, failed_result_printed, parsed, acceptor, lock,
                   accepting, in_flight, phase, counters, done_event, CtrlCHandle, socket_state,
                   fReturn, failures>>

\* The timer fires only while it exists
TimerTick ==
    /\ wakeup_timer
    /\ TimerCallback

\* A record that is still attached calls initiating_io() or closing()
BeginCallback(r) ==
    /\ Running
    /\ ~pool_cleared
    /\ socket_state[r] \in {"Pending", "Active"}
    /\ r \notin detached
    /\ r \notin in_flight
    /\ in_flight' = in_flight \cup {r}
    /\ UNCHANGED <<Settings, break_on_error, failed_result_printed, parsed, acceptor, lock,
                   accepting, dtor, wakeup_timer, detached, pool_cleared, cs_deleted,
                   phase, counters, done_event, CtrlCHandle, socket_pool, socket_state,
                   fReturn, failures>>

\* The call enters the critical section of the broker and runs
\* (lines 123-156)
CompleteCallback(r, call) ==
    /\ Running
    /\ r \in in_flight
    /\ in_flight' = in_flight \ {r}
    /\ IF call = "initiating_io"
       THEN /\ socket_state[r] = "Pending"
            /\ initiating_io
            /\ socket_state' = IF phase' = "failfast" THEN socket_state
                               ELSE [socket_state EXCEPT ![r] = "Active"]
       ELSE /\ closing(socket_state[r] = "Active")
            /\ socket_state' = IF phase' = "failfast" THEN socket_state
                               ELSE [socket_state EXCEPT ![r] = "Closed"]
    /\ UNCHANGED <<Settings, break_on_error, failed_result_printed, parsed, acceptor, lock,
                   accepting, dtor, wakeup_timer, detached, pool_cleared, cs_deleted,
                   total_connections_remaining, pending_limit, done_event, CtrlCHandle,
                   socket_pool, fReturn, failures>>

InitDestructor ==
    /\ Init
    /\ InitialTotal(Settings) + MaxFailures <= MaxRecords

NextDestructor ==
    \/ PrintDebug
    \/ InitialFill
    \/ TimerTick
    \/ \E r \in RecordIds : BeginCallback(r)
    \/ \E r \in RecordIds, call \in {"initiating_io", "closing"} : CompleteCallback(r, call)
    \/ wait
    \/ Shutdown
    \/ Destructor

SpecDestructor == InitDestructor /\ [][NextDestructor]_vars

\* ------------------------------------------------------------------------
\* ctsSimpleAccept at work (ctsSimpleAccept.hpp lines 166-258).  operator()
\* queues a ctsSocket and submits one work item for it; each callback of
\* the thread pool pops a socket, picks a listener and blocks in accept().
\* A socket is named by its id; the worker that popped it is named by the
\* same id.
\* ------------------------------------------------------------------------
ERROR_OUTOFMEMORY == 14

\* One call on a ctsSocket
Call(name, arg) == [call |-> name, arg |-> arg]

\* The calls to complete_state among a socket's calls
CompleteStateCalls(s) ==
    SelectSeq(socket_calls[s], LAMBDA c : c.call = "complete_state")

\* A functor that counts the work as submitted whatever push_back did.
bSubmittedWork_Always(pushed) ==
    TRUE

\* lines 168-177: bSubmittedWork becomes true only after push_back and
\* SubmitThreadpoolWork; a bad_alloc of push_back skips both
bSubmittedWork(pushed) ==
    pushed

\* An accept failure that falls through to the statements of a success.
AcceptCalls_FallsThrough(accepted, gle, has_local) ==
    <<Call("complete_state", gle)>>
        \o (IF has_local THEN <<Call("set_local", 0)>> ELSE <<>>)
        \o <<Call("set_socket", 0), Call("set_target", 0), Call("complete_state", 0)>>

\* A worker that completes the socket before it has stored the new one.
AcceptCalls_CompletesFirst(accepted, gle, has_local) ==
    IF ~accepted
    THEN <<Call("complete_state", gle)>>
    ELSE <<Call("complete_state", 0)>>
             \o (IF has_local THEN <<Call("set_local", 0)>> ELSE <<>>)
             \o <<Call("set_socket", 0), Call("set_target", 0)>>

\* lines 234-253: what the worker calls on the ctsSocket between
\* lock_socket and unlock_socket.  has_local: one of the two getsockname
\* calls of lines 241 and 243 returned 0.
AcceptCalls(accepted, gle, has_local) ==
    IF ~accepted
    THEN <<Call("complete_state", gle)>>
    ELSE (IF has_local THEN <<Call("set_local", 0)>> ELSE <<>>)
             \o <<Call("set_socket", 0), Call("set_target", 0), Call("complete_state", 0)>>

\* A decrement that is lost.
InterlockedDecrement_Lost(refcounts, position) ==
    refcounts

\* line 223, on the element at the 0-based position
InterlockedIncrement(refcounts, position) ==
    [refcounts EXCEPT ![position + 1] = @ + 1]

\* line 230, on the same element
InterlockedDecrement(refcounts, position) ==
    [refcounts EXCEPT ![position + 1] = @ - 1]

\* A scan that also moves to a listener as busy as the best so far.
IsLessUsed_OrEqual(refcount, lowest) ==
    refcount <= lowest

\* line 211: refcount < lowest_refcount
IsLessUsed(refcount, lowest) ==
    refcount < lowest

\* The workers whose scan is under way: a change of a refcount may fall
\* between two of their reads
Scanning == { s \in SocketIds : accept_state[s] = "scanning" }

\* lines 166-171: operator() enters accepting_cs and calls push_back, which
\* may throw bad_alloc and then leaves the vector as it was
OperatorPush(s) ==
    /\ phase # "failfast"
    /\ accept_pc = "constructed"
    /\ accept_state[s] = "idle"
    /\ accepting_cs = 0
    /\ accepting_cs' = s
    /\ \E bad_alloc \in BOOLEAN :
          /\ accepting_sockets' = IF bad_alloc THEN accepting_sockets
                                  ELSE Append(accepting_sockets, s)
          /\ accept_state' = [accept_state EXCEPT
                                 ![s] = IF bad_alloc THEN "push_failed" ELSE "pushed"]
    /\ UNCHANGED <<submitted_work, socket_alive, lowest_refcount, listener_counter,
                   listener_position, raced, socket_calls>>
    /\ UNCHANGED <<Settings, break_on_error, failed_result_printed, parsed, acceptor, lock,
                   destruction, phase, counters, done_event, CtrlCHandle, socket_pool,
                   socket_state, fReturn, failures>>

\* lines 172-179: SubmitThreadpoolWork unless push_back threw, then
\* LeaveCriticalSection
OperatorSubmit(s) ==
    /\ phase # "failfast"
    /\ accepting_cs = s
    /\ accept_state[s] \in {"pushed", "push_failed"}
    /\ LET submitted == bSubmittedWork(accept_state[s] = "pushed")
       IN  /\ submitted_work' = IF submitted THEN submitted_work + 1 ELSE submitted_work
           /\ accept_state' = [accept_state EXCEPT
                                  ![s] = IF submitted THEN "queued" ELSE "unsubmitted"]
    /\ accepting_cs' = 0
    /\ UNCHANGED <<accepting_sockets, socket_alive, lowest_refcount, listener_counter,
                   listener_position, raced, socket_calls>>
    /\ UNCHANGED <<Settings, break_on_error, failed_result_printed, parsed, acceptor, lock,
                   destruction, phase, counters, done_event, CtrlCHandle, socket_pool,
                   socket_state, fReturn, failures>>

\* lines 180-185: without a work item the socket is completed at once, if
\* it still exists
OperatorFail(s) ==
    /\ phase # "failfast"
    /\ accept_state[s] = "unsubmitted"
    /\ accept_state' = [accept_state EXCEPT ![s] = "refused"]
    /\ socket_calls' = [socket_calls EXCEPT
                           ![s] = IF socket_alive[s]
                                  THEN Append(@, Call("complete_state", ERROR_OUTOFMEMORY))
                                  ELSE @]
    /\ UNCHANGED <<accepting_sockets, accepting_cs, submitted_work, socket_alive,
                   lowest_refcount, listener_counter, listener_position, raced>>
    /\ UNCHANGED <<Settings, break_on_error, failed_result_printed, parsed, acceptor, lock,
                   destruction, phase, counters, done_event, CtrlCHandle, socket_pool,
                   socket_state, fReturn, failures>>

\* The functor holds weak references only (lines 63, 166, 193): the socket
\* may go away until a worker has locked its reference (line 197)
SocketExpires(s) ==
    /\ phase # "failfast"
    /\ socket_alive[s]
    /\ accept_state[s] \in {"idle", "pushed", "push_failed", "queued", "unsubmitted",
                            "popped"}
    /\ socket_alive' = [socket_alive EXCEPT ![s] = FALSE]
    /\ UNCHANGED <<accepting_sockets, accepting_cs, submitted_work, accept_state,
                   lowest_refcount, listener_counter, listener_position, raced,
                   socket_calls>>
    /\ UNCHANGED <<Settings, break_on_error, failed_result_printed, parsed, acceptor, lock,
                   destruction, phase, counters, done_event, CtrlCHandle, socket_pool,
                   socket_state, fReturn, failures>>

\* lines 192-195: a callback starts for one submitted work item, enters
\* accepting_cs and takes the last element.  On an empty vector rbegin()
\* has nothing to refer to; no socket is taken then.
WorkerPop ==
    /\ phase # "failfast"
    /\ submitted_work > 0
    /\ accepting_cs = 0
    /\ submitted_work' = submitted_work - 1
    /\ IF accepting_sockets = <<>>
       THEN UNCHANGED <<accepting_sockets, accept_state>>
       ELSE /\ accepting_sockets' = SubSeq(accepting_sockets, 1, Len(accepting_sockets) - 1)
            /\ accept_state' = [accept_state EXCEPT
                                   ![accepting_sockets[Len(accepting_sockets)]] = "popped"]
    /\ UNCHANGED <<accepting_cs, socket_alive, lowest_refcount, listener_counter,
                   listener_position, raced, socket_calls>>
    /\ UNCHANGED <<Settings, break_on_error, failed_result_printed, parsed, acceptor, lock,
                   destruction, phase, counters, done_event, CtrlCHandle, socket_pool,
                   socket_state, fReturn, failures>>

\* lines 197-209: weak_socket.lock(); an expired socket ends the callback,
\* a live one starts the scan with the refcount of the first listener
WorkerLock(s) ==
    /\ phase # "failfast"
    /\ accept_state[s] = "popped"
    /\ accept_state' = [accept_state EXCEPT
                           ![s] = IF socket_alive[s] THEN "scanning" ELSE "dropped"]
    /\ lowest_refcount' = [lowest_refcount EXCEPT
                              ![s] = IF socket_alive[s] THEN listening_sockets_refcount[1]
                                     ELSE @]
    /\ listener_counter' = [listener_counter EXCEPT ![s] = 0]
    /\ listener_position' = [listener_position EXCEPT ![s] = 0]
    /\ raced' = [raced EXCEPT ![s] = FALSE]
    /\ UNCHANGED <<accepting_sockets, accepting_cs, submitted_work, socket_alive,
                   socket_calls>>
    /\ UNCHANGED <<Settings, break_on_error, failed_result_printed, parsed, acceptor, lock,
                   destruction, phase, counters, done_event, CtrlCHandle, socket_pool,
                   socket_state, fReturn, failures>>

\* lines 210-216: one iteration of the loop over the refcounts, read
\* without a lock
WorkerScan(s) ==
    /\ phase # "failfast"
    /\ accept_state[s] = "scanning"
    /\ listener_counter[s] < Len(listening_sockets_refcount)
    /\ LET refcount == listening_sockets_refcount[listener_counter[s] + 1]
           lower == IsLessUsed(refcount, lowest_refcount[s])
       IN  /\ lowest_refcount' = [lowest_refcount EXCEPT
                                     ![s] = IF lower THEN refcount ELSE @]
           /\ listener_position' = [listener_position EXCEPT
                                       ![s] = IF lower THEN listener_counter[s] ELSE @]
    /\ listener_counter' = [listener_counter EXCEPT ![s] = @ + 1]
    /\ UNCHANGED <<accepting_sockets, accepting_cs, submitted_work, socket_alive,
                   accept_state, raced, socket_calls>>
    /\ UNCHANGED <<Settings, break_on_error, failed_result_printed, parsed, acceptor, lock,
                   destruction, phase, counters, done_event, CtrlCHandle, socket_pool,
                   socket_state, fReturn, failures>>

\* lines 223-229: the loop is over; the worker increments the refcount of
\* its listener and calls accept() on it
WorkerIncrement(s) ==
    /\ phase # "failfast"
    /\ accept_state[s] = "scanning"
    /\ listener_counter[s] = Len(listening_sockets_refcount)
    /\ listening_sockets_refcount' =
           InterlockedIncrement(listening_sockets_refcount, listener_position[s])
    /\ accept_state' = [accept_state EXCEPT ![s] = "accepting"]
    /\ raced' = [t \in SocketIds |-> raced[t] \/ t \in Scanning \ {s}]
    /\ UNCHANGED <<accepting_sockets, accepting_cs, submitted_work, socket_alive,
                   lowest_refcount, listener_counter, listener_position, socket_calls>>
    /\ UNCHANGED <<ListenAddresses, accept_pc, listening_sockets, thread_pool_worker, copies,
                   sockets_created, tracked, closesocket_calls>>
    /\ UNCHANGED <<Settings, break_on_error, failed_result_printed, parsed, lock,
                   destruction, phase, counters, done_event, CtrlCHandle, socket_pool,
                   socket_state, fReturn, failures>>

\* lines 229-257: accept() returns; gle is WSAGetLastError() whatever
\* accept returned, so after a success it is the last error of the thread.
\* PrintErrorIfFailed (ctsConfig.cpp lines 2436-2486) ends the process on
\* an error under -OnError:break, with the ctsSocket locked.
WorkerComplete(s, accepted, gle, has_local) ==
    /\ phase # "failfast"
    /\ accept_state[s] = "accepting"
    /\ ~accepted => gle # 0
    /\ listening_sockets_refcount' =
           InterlockedDecrement(listening_sockets_refcount, listener_position[s])
    /\ raced' = [t \in SocketIds |-> raced[t] \/ t \in Scanning]
    /\ IF ~shutdown_called /\ gle # 0 /\ break_on_error
       THEN /\ phase' = "failfast"
            /\ accept_state' = [accept_state EXCEPT ![s] = "broke"]
            /\ socket_calls' = [socket_calls EXCEPT ![s] = Append(@, Call("lock_socket", 0))]
       ELSE /\ phase' = phase
            /\ accept_state' = [accept_state EXCEPT ![s] = "completed"]
            /\ socket_calls' = [socket_calls EXCEPT
                                   ![s] = @ \o <<Call("lock_socket", 0)>>
                                            \o AcceptCalls(accepted, gle, has_local)
                                            \o <<Call("unlock_socket", 0)>>]
    /\ UNCHANGED <<accepting_sockets, accepting_cs, submitted_work, socket_alive,
                   lowest_refcount, listener_counter, listener_position>>
    /\ UNCHANGED <<ListenAddresses, accept_pc, listening_sockets, thread_pool_worker, copies,
                   sockets_created, tracked, closesocket_calls>>
    /\ UNCHANGED <<Settings, break_on_error, failed_result_printed, parsed, lock,
                   destruction, counters, done_event, CtrlCHandle, socket_pool,
                   socket_state, fReturn, failures>>

\* The functor constructed over one to MaxListenAddresses listeners (lines
\* 120-159), under either -OnError policy
InitWorker ==
    /\ NoBroker
    /\ StartupDefaults
    /\ NoAcceptWork
    /\ break_on_error \in BOOLEAN
    /\ failed_result_printed = FALSE
    /\ Settings = [AcceptFunction |-> TRUE, Iterations |-> MAXULONGLONG,
                   ConnectionLimit |-> 1, ConnectionThrottleLimit |-> MAXUINT32,
                   ServerExitLimit |-> MAXULONGLONG, AcceptLimit |-> MaxAcceptLimit]
    /\ ListenAddresses \in 1..MaxListenAddresses
    /\ args = [NoArgs EXCEPT !.listen = ListenAddresses, !.target = 0]
    /\ accept_pc = "constructed"
    /\ listening_sockets = [i \in 1..ListenAddresses |-> i]
    /\ listening_sockets_refcount = [i \in 1..ListenAddresses |-> 0]
    /\ thread_pool_worker = TRUE
    /\ copies = 1
    /\ sockets_created = ListenAddresses
    /\ tracked = 1..ListenAddresses
    /\ closesocket_calls = <<>>

NextWorker ==
    \/ \E s \in SocketIds : OperatorPush(s)
    \/ \E s \in SocketIds : OperatorSubmit(s)
    \/ \E s \in SocketIds : OperatorFail(s)
    \/ \E s \in SocketIds : SocketExpires(s)
    \/ WorkerPop
    \/ \E s \in SocketIds : WorkerLock(s)
    \/ \E s \in SocketIds : WorkerScan(s)
    \/ \E s \in SocketIds : WorkerIncrement(s)
    \/ \E s \in SocketIds, accepted \in BOOLEAN, gle \in ErrorCodes, has_local \in BOOLEAN :
          WorkerComplete(s, accepted, gle, has_local)

SpecWorker == InitWorker /\ [][NextWorker]_vars

\* ------------------------------------------------------------------------
\* Properties
\* ------------------------------------------------------------------------
IsClient == ~Settings.AcceptFunction
FiniteClient == IsClient /\ Settings.Iterations # MAXULONGLONG
FiniteServer == Settings.AcceptFunction /\ Settings.ServerExitLimit # MAXULONGLONG

\* The steps of each operation, whoever the caller is
InitiatingIoStep == CallInitiatingIo \/ \E r \in RecordIds : RecordInitiatingIo(r)
ClosingStep(was_active) ==
    \/ CallClosing(was_active)
    \/ \E r \in RecordIds : RecordClosing(r) /\ (socket_state[r] = "Active") = was_active

\* C1: client role: pending_sockets + active_sockets never exceeds
\* ConnectionLimit, in any interleaving of the initial fill, timer ticks and
\* record callbacks.
C1_WithinConnectionLimit ==
    IsClient => pending_sockets + active_sockets <= Settings.ConnectionLimit

\* C2: client role: pending_sockets never exceeds ConnectionThrottleLimit, in
\* any interleaving of the initial fill, timer ticks and record callbacks.
C2_WithinThrottleLimit ==
    IsClient => pending_sockets <= Settings.ConnectionThrottleLimit

\* C3: when the done event is signalled, the number of records ever created
\* is Iterations x ConnectionLimit (client, finite iterations) or
\* ServerExitLimit (server, finite exit limit).
C3_TotalRecordsCreated ==
    done_event =>
        /\ FiniteClient => RecordsCreated = Settings.Iterations * Settings.ConnectionLimit
        /\ FiniteServer => RecordsCreated = Settings.ServerExitLimit

C5_DoneOnlyWhenNoMoreWork ==
    [][ /\ (~done_event /\ done_event') =>
              /\ TimerCallback
              /\ total_connections_remaining = 0
              /\ pending_sockets = 0
              /\ active_sockets = 0
        /\ done_event =>
              /\ done_event'
              /\ RecordsConstructed' = RecordsConstructed ]_vars

C5_Witness ==
    /\ done_event
    /\ RecordsCreated > 0
    /\ RecordsCreated = InitialTotal(Settings)
    /\ \A r \in Started : socket_state[r] = "Closed"

C7_InitiatingIoEffect ==
    [][ InitiatingIoStep =>
          IF pending_sockets > 0
          THEN /\ pending_sockets' = pending_sockets - 1
               /\ active_sockets' = active_sockets + 1
               /\ pending_sockets' + active_sockets' = pending_sockets + active_sockets
               /\ phase' = phase
               /\ UNCHANGED <<total_connections_remaining, pending_limit, socket_pool,
                              done_event>>
          ELSE /\ phase' = "failfast"
               /\ UNCHANGED <<counters, socket_pool, done_event>> ]_vars

C7_Witness ==
    /\ Running
    /\ active_sockets > 0
    /\ pending_sockets > 0

\* C8: closing(was_active) takes one off active_sockets when was_active and one
\* off pending_sockets otherwise, leaving the other counter,
\* total_connections_remaining and the pool alone; if the counter to take from
\* is 0 it fails fast and no counter changes.
C8_ClosingEffect ==
    [][ /\ ClosingStep(TRUE) =>
              IF active_sockets > 0
              THEN /\ active_sockets' = active_sockets - 1
                   /\ phase' = phase
                   /\ UNCHANGED <<pending_sockets, total_connections_remaining,
                                  pending_limit, socket_pool>>
              ELSE /\ phase' = "failfast"
                   /\ UNCHANGED <<counters, socket_pool>>
        /\ ClosingStep(FALSE) =>
              IF pending_sockets > 0
              THEN /\ pending_sockets' = pending_sockets - 1
                   /\ phase' = phase
                   /\ UNCHANGED <<active_sockets, total_connections_remaining,
                                  pending_limit, socket_pool>>
              ELSE /\ phase' = "failfast"
                   /\ UNCHANGED <<counters, socket_pool>> ]_vars

\* closing(true) was called with no active socket while others were pending
C8_Witness ==
    /\ phase = "failfast"
    /\ active_sockets = 0
    /\ pending_sockets > 0

\* C9: once the cancellation event is signalled no tick creates a record any
\* more, and wait() returns true.
C9_NoCreationAfterCancel ==
    [][ CtrlCHandle =>
          /\ TimerCallback => RecordsCreated' = RecordsCreated
          /\ wait => fReturn' ]_vars

\* C10 as stated: a failed creation consumes its slot, so the creation
\* attempts, failed ones included, never exceed the configured total.
C10_AttemptsWithinTotal ==
    CreationAttempts <= InitialTotal(Settings)

\* C10 amended: a creation attempt that throws inside a tick does not consume
\* its slot (total_connections_remaining goes down only by the records created
\* before the exception), and records created plus records remaining always
\* equals the configured total.
C10_FailedSlotNotConsumed ==
    [][ /\ (TimerCallback /\ failures' # failures) =>
              /\ failures' = failures + 1
              /\ total_connections_remaining' =
                    total_connections_remaining - (RecordsCreated' - RecordsCreated)
        /\ RecordsCreated' + total_connections_remaining' = InitialTotal(Settings) ]_vars

C10_Witness ==
    /\ phase = "running"
    /\ failures > 0
    /\ total_connections_remaining = 0
    /\ RecordsCreated > 0
    /\ RecordsCreated = InitialTotal(Settings)

C12_InitialTotalSaturates ==
    FiniteClient =>
        RecordsCreated + total_connections_remaining =
            IF Settings.Iterations * Settings.ConnectionLimit > MAXULONGLONG
            THEN MAXULONGLONG
            ELSE Settings.Iterations * Settings.ConnectionLimit

\* C13: after construction pending_limit is the smaller of the configured
\* limit (AcceptLimit for the server role, ConnectionLimit for the client
\* role) and the total the broker starts from; when the total is the smaller
\* one, pending_limit holds it in full: the cast to unsigned long drops no bit.
C13_PendingLimitIsMin ==
    LET limit == IF Settings.AcceptFunction THEN Settings.AcceptLimit
                 ELSE Settings.ConnectionLimit
        total == RecordsCreated + total_connections_remaining
    IN  /\ pending_limit = IF limit <= total THEN limit ELSE total
        /\ limit > total => total <= MAXUINT32

\* a server told to exit after fewer connections than its AcceptLimit
C13_Witness ==
    /\ phase = "running"
    /\ Settings.AcceptFunction
    /\ pending_limit > 0
    /\ pending_limit < Settings.AcceptLimit
    /\ pending_limit = Settings.ServerExitLimit
    /\ RecordsCreated = pending_limit

\* C14: in every reachable state, for both roles, pending_sockets is at most
\* pending_limit.
C14_PendingWithinLimit ==
    pending_sockets <= pending_limit

\* the limit is what stopped the creation: more remain to be created
C14_Witness ==
    /\ phase = "running"
    /\ pending_limit >= 2
    /\ pending_sockets = pending_limit
    /\ total_connections_remaining > 0

\* The four conditions under which the client's catch-up loop creates no
\* (further) record
FilledToCapacity(total, pending, active) ==
    \/ total = 0
    \/ pending >= pending_limit
    \/ pending + active >= Settings.ConnectionLimit
    \/ pending >= Settings.ConnectionThrottleLimit

\* C15: refill rule, client role: a tick in which the done event is not
\* signalled and no creation fails ends filled to capacity
\* (total_connections_remaining = 0, or pending_sockets >= pending_limit, or
\* pending_sockets + active_sockets >= ConnectionLimit, or pending_sockets >=
\* ConnectionThrottleLimit), and each record it creates is created while all
\* four conditions are false.
C15_RefillRule ==
    [][ (TimerCallback /\ IsClient /\ ~done_event' /\ failures' = failures) =>
          /\ FilledToCapacity(total_connections_remaining', pending_sockets',
                              active_sockets')
          /\ pending_sockets' - pending_sockets = RecordsCreated' - RecordsCreated
          /\ \A j \in 1..(RecordsCreated' - RecordsCreated) :
                ~FilledToCapacity(total_connections_remaining' + j,
                                  pending_sockets' - j, active_sockets) ]_vars

\* the broker has caught up after closes, and the throttle is what holds the
\* next creation back
C15_Witness ==
    /\ phase = "running"
    /\ IsClient
    /\ failures = 0
    /\ ~done_event
    /\ RecordsCreated > pending_limit
    /\ total_connections_remaining > 0
    /\ pending_sockets = Settings.ConnectionThrottleLimit
    /\ pending_sockets < pending_limit
    /\ pending_sockets + active_sockets < Settings.ConnectionLimit

\* C16: wait() returns true exactly when the done event or the cancellation
\* event is signalled, false otherwise (timeout), and changes neither a broker
\* counter nor the pool nor any record.  The second conjunct states the result
\* for every state in which wait() can be called, whatever the previous call
\* returned.
C16_WaitResult ==
    /\ [][ wait =>
             /\ fReturn' = (done_event \/ CtrlCHandle)
             /\ UNCHANGED <<counters, socket_pool, socket_state, done_event,
                            CtrlCHandle, phase>> ]_vars
    /\ [](phase = "running" =>
             /\ (ENABLED (wait /\ fReturn')) = (done_event \/ CtrlCHandle)
             /\ (ENABLED (wait /\ ~fReturn')) = ~(done_event \/ CtrlCHandle))

\* wait() has returned true on cancellation alone, with connections in flight
C16_Witness ==
    /\ fReturn
    /\ CtrlCHandle
    /\ ~done_event
    /\ pending_sockets + active_sockets > 0

\* C17: mutual exclusion: every access to the counters and the pool that can
\* run concurrently with the timer callback is made while holding the broker's
\* critical section.  TimerCallback, the constructor's fill, initiating_io()
\* and closing() hold it for all of their accesses; the constructor's read of
\* total_connections_remaining in PrintDebug does not, so the claim needs that
\* read never to be possible in a state where a tick can write that counter.
C17_AccessesUnderLock ==
    ~(/\ ENABLED PrintDebug
      /\ ENABLED (TimerCallback /\
                  total_connections_remaining' # total_connections_remaining))

\* C18: for every connection record the broker processes initiating_io()
\* before any closing(true) of that record: a record becomes active only by
\* an initiating_io() step from the pending state, a record that closes after
\* it closes with was_active = true (active_sockets goes down), and a record
\* that closes without ever having reported initiating_io closes with
\* was_active = false (pending_sockets goes down).
C18_InitiatingIoBeforeClosing ==
    [][ \A r \in RecordIds :
          /\ (socket_state[r] # "Active" /\ socket_state'[r] = "Active") =>
                /\ socket_state[r] = "Pending"
                /\ pending_sockets' = pending_sockets - 1
                /\ active_sockets' = active_sockets + 1
          /\ (socket_state[r] # "Closed" /\ socket_state'[r] = "Closed") =>
                IF socket_state[r] = "Active"
                THEN /\ active_sockets' = active_sockets - 1
                     /\ pending_sockets' = pending_sockets
                ELSE /\ socket_state[r] = "Pending"
                     /\ pending_sockets' = pending_sockets - 1
                     /\ active_sockets' = active_sockets ]_vars

\* one record has closed while another, connected one is still active and a
\* third is still connecting
C18_Witness ==
    \E r, q, p \in RecordIds :
        /\ socket_state[r] = "Closed"
        /\ socket_state[q] = "Active"
        /\ socket_state[p] = "Pending"
        /\ active_sockets = 1
        /\ pending_sockets = 1

\* The transitions of a record that the broker takes part in: creation,
\* initiating_io and closing
LifecycleEdges ==
    { <<"None", "Pending">>, <<"None", "Creating">>, <<"Pending", "Active">>,
      <<"Pending", "Closed">>, <<"Active", "Closed">> }

\* C19: the broker observes each lifecycle transition of a record exactly
\* once: a record moves only forward (at most one initiating_io, one closing,
\* and none after it has closed), every callback the broker processes is the
\* transition of exactly one record, and so the two counters always equal the
\* numbers of records that are pending and active.
C19_EachTransitionObservedOnce ==
    /\ [][ \A r \in RecordIds :
             socket_state'[r] # socket_state[r] =>
                <<socket_state[r], socket_state'[r]>> \in LifecycleEdges ]_vars
    /\ [][ (/\ <<pending_sockets', active_sockets'>> # <<pending_sockets, active_sockets>>
            /\ RecordsConstructed' = RecordsConstructed) =>
              Cardinality({ r \in RecordIds : socket_state'[r] # socket_state[r] }) = 1 ]_vars
    /\ [](/\ pending_sockets = Cardinality({ r \in RecordIds : socket_state[r] = "Pending" })
          /\ active_sockets = Cardinality({ r \in RecordIds : socket_state[r] = "Active" }))

\* every record of the run has been created, two have closed and one is still
\* active
C19_Witness ==
    /\ total_connections_remaining = 0
    /\ pending_sockets = 0
    /\ active_sockets = 1
    /\ Cardinality({ r \in RecordIds : socket_state[r] = "Closed" }) = 2
    /\ Cardinality({ r \in RecordIds : socket_state[r] = "Active" }) = 1

\* The records the pool holds

\* C20: reaping: a timer tick removes from the pool exactly the records for
\* which is_closed() holds and keeps every other record, in order; a record
\* that is pending or active is never removed, by any step; and after a tick
\* no closed record is left in the pool.
C20_Reaping ==
    [][ /\ \A r \in InPool \ InPool' : is_closed(r)
        /\ TimerCallback =>
              /\ \A r \in InPool : is_closed(r) => r \notin InPool'
              /\ SelectSeq(socket_pool', LAMBDA r : r \in InPool) =
                    SelectSeq(socket_pool, LAMBDA r : ~is_closed(r))
              /\ \A r \in InPool' : socket_state'[r] # "Closed" ]_vars

\* a closed record has been reaped while a pending and an active record,
\* created before it, are still in the pool
C20_Witness ==
    \E r, q, p \in RecordIds :
        /\ q < r /\ p < r
        /\ socket_state[r] = "Closed" /\ r \notin InPool
        /\ socket_state[q] = "Active" /\ q \in InPool
        /\ socket_state[p] = "Pending" /\ p \in InPool

\* C21 as stated: the on-error policy does not alter run control: reporting
\* an error never stops the run, under 'break' as under 'log'.
C21_PolicyDoesNotAlterRun ==
    [][ \A why \in ErrorCodes : PrintErrorIfFailed(why) => phase' = phase ]_vars

\* C21 amended: under 'log' reporting an error changes nothing of the run;
\* under 'break' the report of a failure (non-zero code) made before Shutdown
\* terminates the process by a fail-fast exception and is the only effect of
\* the report; after that no broker operation happens.  No step of the
\* broker changes the policy.
C21_BreakStopsRunLogDoesNot ==
    /\ [][ \A why \in ErrorCodes :
             PrintErrorIfFailed(why) =>
                /\ phase' = IF break_on_error /\ ~shutdown_called /\ why # 0
                            THEN "failfast" ELSE phase
                /\ UNCHANGED <<configuration, counters, done_event, CtrlCHandle,
                               socket_pool, socket_state, fReturn, failures>> ]_vars
    /\ [](~break_on_error =>
             ~ENABLED (\E why \in ErrorCodes : PrintErrorIfFailed(why) /\ vars' # vars))
    /\ [](phase = "failfast" => ~ENABLED (Next /\ vars' # vars))
    /\ [][ break_on_error' = break_on_error ]_vars

\* the process was stopped by an error report while connections were pending
\* and active and more were to be created
C21_Witness ==
    /\ phase = "failfast"
    /\ break_on_error
    /\ ~shutdown_called
    /\ pending_sockets > 0
    /\ active_sockets > 0
    /\ total_connections_remaining + pending_sockets + active_sockets =
          InitialTotal(Settings)

C24_RangeValuesExact ==
    startup = "returned_true" =>
        /\ Len(args.RateLimit) = 2 =>
               \A v \in Values :
                   (ENABLED (GetTcpBytesPerSecond /\ TcpBytesPerSecond' = v))
                       <=> (v \in args.RateLimit[1]..args.RateLimit[2])
        /\ Len(args.buffer) = 2 =>
               \A v \in Values :
                   (ENABLED (GetBufferSize /\ BufferSize' = v))
                       <=> (v \in args.buffer[1]..args.buffer[2])

\* ------------------------------------------------------------------------
\* C25: after a successful Startup with TCP, PrePostRecvs > 1 implies that
\* ShouldVerifyBuffers is false; a command line that asks for TCP (or names
\* no protocol), for data verification (or names none) and for more than
\* one pre-posted receive makes Startup fail with invalid_argument.
\* ------------------------------------------------------------------------
C25_PrePostRecvsNeedsNoVerify ==
    /\ (startup = "returned_true" /\ Protocol = "TCP" /\ PrePostRecvs > 1)
           => ~ShouldVerifyBuffers
    /\ (/\ startup # "not_called"
        /\ args.Protocol \in {"absent", "tcp"}
        /\ args.verify \in {"absent", "always", "data"}
        /\ Len(args.PrePostRecvs) = 1 /\ args.PrePostRecvs[1] > 1)
           => startup = "invalid_argument"

C25_Witness ==
    /\ startup = "returned_true"
    /\ args.Protocol = "tcp" /\ args.verify = "connection" /\ args.PrePostRecvs = <<2>>
    /\ Protocol = "TCP" /\ PrePostRecvs = 2 /\ ~ShouldVerifyBuffers

\* ------------------------------------------------------------------------
\* C26: every listening socket the constructor of ctsSimpleAccept creates
\* is closed exactly once on every exit path: by the scope guard when the
\* constructor fails before the socket is tracked in listening_sockets,
\* otherwise by the destructor of the impl (also when a later address fails
\* and the constructor throws); none is closed twice, none is leaked.
\* ------------------------------------------------------------------------
CloseCount(s) ==
    Cardinality({i \in 1..Len(closesocket_calls) : closesocket_calls[i].socket = s})

C26_ListenersClosedOnce ==
    /\ \A i \in 1..Len(closesocket_calls) :
          /\ closesocket_calls[i].socket \in 1..sockets_created
          /\ closesocket_calls[i].by = IF closesocket_calls[i].socket \in tracked
                                       THEN "~ctsSimpleAcceptImpl"
                                       ELSE "closeSocketOnError"
    /\ \A s \in 1..sockets_created : CloseCount(s) <= 1
    /\ accept_pc \in {"ctor_threw", "destroyed"} =>
          \A s \in 1..sockets_created : CloseCount(s) = 1

\* A later address failed after its socket was created: the first socket is
\* closed by the impl, the second by the scope guard.
C26_Witness ==
    /\ accept_pc = "ctor_threw"
    /\ sockets_created = 2
    /\ tracked = {1}
    /\ Len(closesocket_calls) = 2

\* ------------------------------------------------------------------------
\* C28: in every reachable state pending_sockets + active_sockets is the
\* number of records of the pool that have been started and have not yet
\* reported closing, also after a tick or a fill in which make_shared or
\* start() threw.
\* ------------------------------------------------------------------------
C28_CountersMatchPool ==
    pending_sockets + active_sockets =
        Cardinality({r \in InPool : socket_state[r] \in {"Pending", "Active"}})

\* A tick has thrown in start(): the record is in the pool, uncounted, next
\* to counted ones.
C28_Witness ==
    /\ phase = "running"
    /\ failures > 0
    /\ \E r \in InPool : socket_state[r] = "Creating"
    /\ pending_sockets > 0
    /\ active_sockets > 0

\* ------------------------------------------------------------------------
\* C29: client role: when the constructor of the broker returns, at most
\* min(pending_limit, ConnectionThrottleLimit) records have been created in
\* total, however the initial fill interleaves with the first timer tick
\* and with the callbacks of the records.
\* ------------------------------------------------------------------------
C29_CreatedWhenConstructorReturns ==
    [][(InitialFill /\ phase' = "running" /\ IsClient) =>
          RecordsCreated' <= IF pending_limit <= Settings.ConnectionThrottleLimit
                             THEN pending_limit
                             ELSE Settings.ConnectionThrottleLimit]_vars

\* ------------------------------------------------------------------------
\* C27: when every record reports initiating_io at most once, while it is
\* pending, and closing once, the fatal conditions of initiating_io() and
\* closing() are never met: although both loops call start() before
\* ++pending_sockets, the increment of a record is applied before the
\* broker processes any callback of that record.
\* ------------------------------------------------------------------------
C27_FatalConditionsUnreachable ==
    /\ [](phase # "failfast")
    /\ [][\A r \in RecordIds :
             (LockedInitiatingIo(r) \/ LockedClosing(r)) => uncounted # r]_vars

\* A tick has started a record and not yet counted it, while callbacks of
\* earlier records have been processed.
C27_Witness ==
    /\ cs_owner = "TimerCallback"
    /\ uncounted # 0
    /\ pending_sockets = 0
    /\ active_sockets > 0

\* ------------------------------------------------------------------------
\* C30: the destructor of the broker stops the timer first, then detaches
\* every record, then clears the pool, and deletes the critical section
\* last; once the timer is stopped (so from the first detach on) no tick
\* creates or reaps a record; and no call of initiating_io() or closing()
\* enters the critical section after it has been deleted.
\* ------------------------------------------------------------------------
C30_DestructionOrder ==
    /\ [](/\ detached # {} => ~wakeup_timer
          /\ pool_cleared => ~wakeup_timer
          /\ cs_deleted => pool_cleared)
    /\ [][(pool_cleared' /\ ~pool_cleared) => InPool \subseteq detached]_vars
    /\ [][~wakeup_timer =>
             /\ Allocated' = Allocated
             /\ socket_pool' = socket_pool \/ (pool_cleared' /\ ~pool_cleared)]_vars
    /\ [][\A r \in RecordIds, call \in {"initiating_io", "closing"} :
             CompleteCallback(r, call) => ~cs_deleted]_vars

\* The broker was destroyed after Ctrl-C with connections still open: two
\* records were detached, the pool cleared, the critical section deleted.
C30_Witness ==
    /\ cs_deleted
    /\ pool_cleared
    /\ Cardinality(detached) >= 2
    /\ CtrlCHandle
    /\ pending_sockets + active_sockets > 0

C32_CompletedAtMostOnce ==
    /\ [](\A s \in SocketIds :
            /\ Len(CompleteStateCalls(s)) <= 1
            /\ accept_state[s] = "completed" => Len(CompleteStateCalls(s)) = 1
            /\ accept_state[s] = "dropped" => socket_calls[s] = <<>>
            /\ accept_state[s] = "refused" =>
                   socket_calls[s] \in {<<>>, <<Call("complete_state", ERROR_OUTOFMEMORY)>>}
            /\ accept_state[s] \in {"idle", "pushed", "push_failed", "queued", "unsubmitted",
                                    "popped", "scanning", "accepting"} =>
                   socket_calls[s] = <<>>)
    /\ [][\A s \in SocketIds, accepted \in BOOLEAN, gle \in ErrorCodes, has_local \in BOOLEAN :
            WorkerComplete(s, accepted, gle, has_local) /\ phase' # "failfast" =>
                CompleteStateCalls(s)' =
                    <<Call("complete_state", IF accepted THEN 0 ELSE gle)>>]_vars
    /\ [][\A s \in SocketIds :
            OperatorFail(s) =>
                CompleteStateCalls(s)' =
                    IF socket_alive[s] THEN <<Call("complete_state", ERROR_OUTOFMEMORY)>>
                    ELSE <<>>]_vars

C32_Witness ==
    \E s, t \in SocketIds :
        /\ accept_state[s] = "completed"
        /\ CompleteStateCalls(s) = <<Call("complete_state", 1)>>
        /\ accept_state[t] = "refused"
        /\ socket_calls[t] = <<Call("complete_state", ERROR_OUTOFMEMORY)>>

\* C33: the work items submitted and not yet popped never outnumber the
\* elements of accepting_sockets, so a worker that pops finds an element;
\* the vector changes only in a push or a pop, each of them inside
\* accepting_cs: never while another thread holds the critical section.
C33_PopFindsSocket ==
    /\ [](/\ submitted_work <= Len(accepting_sockets)
          /\ accepting_cs # 0 => accept_state[accepting_cs] \in {"pushed", "push_failed"})
    /\ [][WorkerPop => accepting_sockets # <<>> /\ accepting_cs = 0]_vars
    /\ [][accepting_sockets' # accepting_sockets =>
            \/ WorkerPop
            \/ \E s \in SocketIds :
                  /\ accepting_cs = 0 /\ accepting_cs' = s
                  /\ accepting_sockets' = Append(accepting_sockets, s)]_vars

C33_Witness ==
    /\ submitted_work = 1
    /\ Len(accepting_sockets) = 1
    /\ \E s \in SocketIds : accept_state[s] = "popped"

\* The names of the calls made on a socket
Made(calls) == { calls[i].call : i \in DOMAIN calls }

\* The calls a returning worker has made on its socket, as C34 orders them:
\* lock_socket first, unlock_socket last; after a success complete_state(0)
\* right before the unlock, with set_socket, set_target and, when
\* local_set, set_local in between; after a failure complete_state(gle)
\* alone
WorkerCallsInOrder(calls, accepted, gle, local_set) ==
    /\ Len(calls) >= 3
    /\ calls[1] = Call("lock_socket", 0)
    /\ calls[Len(calls)] = Call("unlock_socket", 0)
    /\ calls[Len(calls) - 1] = Call("complete_state", IF accepted THEN 0 ELSE gle)
    /\ LET between == Made(SubSeq(calls, 2, Len(calls) - 2))
       IN  IF accepted
           THEN between = {"set_socket", "set_target"}
                              \cup (IF local_set THEN {"set_local"} ELSE {})
           ELSE between = {}

\* C34 as stated: after a successful accept the worker has set the local
\* address, the socket and the target before complete_state(0), between
\* lock_socket and unlock_socket; after a failed accept it has called
\* complete_state with the error of accept and never set_socket.
C34_Original ==
    [][\A s \in SocketIds, accepted \in BOOLEAN, gle \in ErrorCodes, has_local \in BOOLEAN :
          WorkerComplete(s, accepted, gle, has_local) /\ phase' # "failfast" =>
              WorkerCallsInOrder(socket_calls'[s], accepted, gle, TRUE)]_vars

\* C34, amended: as above, but the local address is set only when
\* getsockname succeeds on the accepted socket or, failing that, on the
\* listener; when both fail the worker goes on without set_local.
C34_LocalWhenKnown ==
    [][\A s \in SocketIds, accepted \in BOOLEAN, gle \in ErrorCodes, has_local \in BOOLEAN :
          WorkerComplete(s, accepted, gle, has_local) /\ phase' # "failfast" =>
              WorkerCallsInOrder(socket_calls'[s], accepted, gle, has_local)]_vars

C34_Witness ==
    \E s, t \in SocketIds :
        /\ accept_state[s] = "completed"
        /\ socket_calls[s] = <<Call("lock_socket", 0), Call("set_socket", 0),
                               Call("set_target", 0), Call("complete_state", 0),
                               Call("unlock_socket", 0)>>
        /\ accept_state[t] = "completed"
        /\ socket_calls[t] = <<Call("lock_socket", 0), Call("complete_state", 1),
                               Call("unlock_socket", 0)>>

\* The workers between their increment and their decrement around accept()
\* on the listener at a 0-based position
BlockedInAccept(position) ==
    { s \in SocketIds : accept_state[s] = "accepting" /\ listener_position[s] = position }

\* C35: the refcount of every listener is the number of workers between
\* their increment and their decrement around accept() on it: never
\* negative, and 0 when no worker is blocked in accept on that listener.
C35_RefcountCountsWorkers ==
    /\ Len(listening_sockets_refcount) = Len(listening_sockets)
    /\ \A i \in DOMAIN listening_sockets_refcount :
          /\ listening_sockets_refcount[i] = Cardinality(BlockedInAccept(i - 1))
          /\ listening_sockets_refcount[i] >= 0
          /\ BlockedInAccept(i - 1) = {} => listening_sockets_refcount[i] = 0

C35_Witness ==
    \E s, t \in SocketIds :
        /\ accept_state[s] = "completed"
        /\ accept_state[t] = "accepting"
        /\ listener_position[s] = listener_position[t]
        /\ listening_sockets_refcount[listener_position[t] + 1] = 1

\* The 0-based position of the first listener whose refcount is the lowest
LeastUsed(refcounts) ==
    (CHOOSE i \in DOMAIN refcounts :
        /\ \A j \in DOMAIN refcounts : refcounts[i] <= refcounts[j]
        /\ \A j \in 1..(i - 1) : refcounts[j] > refcounts[i]) - 1

\* C36 as stated: the listener a worker selects is the lowest index whose
\* refcount is the minimum of the refcounts as they are at the moment the
\* worker increments the refcount of its choice.
C36_Original ==
    [][\A s \in SocketIds :
          WorkerIncrement(s) =>
              listener_position[s] = LeastUsed(listening_sockets_refcount)]_vars

\* C36, amended: the worker selects the lowest index with the lowest
\* refcount among the values it read in its scan, which takes no lock;
\* these are the values at the moment of its increment when no other
\* worker has changed a refcount since the scan began.
C36_LeastUsedUnlessRaced ==
    [][\A s \in SocketIds :
          WorkerIncrement(s) /\ ~raced[s] =>
              listener_position[s] = LeastUsed(listening_sockets_refcount)]_vars

C36_Witness ==
    \E s, t \in SocketIds :
        /\ accept_state[s] = "accepting" /\ accept_state[t] = "accepting"
        /\ listener_position[t] = 0
        /\ listener_position[s] = 1
        /\ ~raced[s]
        /\ listening_sockets_refcount[1] = 1 /\ listening_sockets_refcount[2] = 1

====
